---- MODULE Spec2Model ----
(***************************************************************************)
(* Access proxies of the Blaze matrix adaptors.                            *)
(*                                                                         *)
(*   LowerProxy<MT>     blaze/math/adaptors/lowermatrix/LowerProxy.h       *)
(*   DiagonalProxy<MT>  blaze/math/adaptors/diagonalmatrix/DiagonalProxy.h *)
(*                                                                         *)
(* A proxy holds a reference value_ to one element of an adapted matrix    *)
(* and a constant flag restricted_.  The model keeps two adapted matrices  *)
(* A and B, whose adaptor kind is fixed when they are created, a bounded   *)
(* number of live proxies, and a record of the last call and its outcome.  *)
(* Elements are of the built-in type int, as in the class documentation.   *)
(*                                                                         *)
(*   Spec         the calls made on proxies by one thread                  *)
(*   SpecRaw      Spec with writes through the references get() returns    *)
(*   SpecThreads  operator+= called by two threads at once                 *)
(*   SpecReduce   reduce, sum and prod of a sparse vector                  *)
(*                blaze/math/expressions/SVecReduceExpr.h                  *)
(*   SpecCompare  the relational operators of DiagonalProxy                *)
(*   SpecDriver   main of a test driver (MIbMIb.cpp and blazetest/src)     *)
(***************************************************************************)
EXTENDS Integers, Sequences, FiniteSets, TLC

\* ---------------------------------------------------------------- bounds
N == 3            \* the matrices are N x N
MaxProxies == 2   \* proxies alive at the same time
MaxSteps == 3     \* calls that are not pure reads, per behaviour
MaxVal == 10      \* elements range over -MaxVal..MaxVal
MaxSize == 4      \* a sparse vector has at most MaxSize elements
MaxRuns == 13     \* a test driver lists at most MaxRuns operation tests

\* ------------------------------------------------------------- universes
Idx == 0 .. (N - 1)
Pos == Idx \X Idx
Val == (0 - MaxVal) .. MaxVal
Operands == {0, 2, 3, 5, 7}
CompareValues == {0, 5}
Lists == { <<7, 2>> }
NestedLists == { << <<7>> >> }
MatIds == {"A", "B"}
Kinds == {"lower", "diagonal"}
Slots == 1 .. MaxProxies

\* The default value of an element: int() in the documented example.
Default == 0

VARIABLES
    kindOf,    \* kindOf[m]: the adaptor of matrix m, "lower" or "diagonal"
    mats,      \* mats[m][<<r, c>>]: the element of matrix m at (r, c)
    proxies,   \* proxies[s]: the proxy in slot s, or NoProxy
    last,      \* the last call: what it was, on which proxy, how it ended
    pre,       \* history: the matrices and proxies as the last call found them
    nsteps,    \* calls made so far that are not pure reads
    threads,   \* threads[t]: where thread t is in its operator+= call
    sv,        \* the sparse vector handed to reduce
    redux,     \* the last reduction: its operation, its input and its result
    driver     \* the main function of a test driver: where it is, how it ended

\* What the calls on proxies made by one thread leave alone.
aside == <<threads, sv, redux, driver>>

vars == <<kindOf, mats, proxies, last, pre, nsteps, threads, sv, redux, driver>>

\* ------------------------------------------------------- matrices at start
\* A( 3UL ): every element is default.
ZeroMatrix == [p \in Pos |-> Default]

\* The matrix of the LowerProxy class documentation:
\*   A(0,0) = -2;  A(1,0) = 3;  A(2,1) = 5;
DocLower ==
    [p \in Pos |-> CASE p = <<0, 0>> -> 0 - 2
                     [] p = <<1, 0>> -> 3
                     [] p = <<2, 1>> -> 5
                     [] OTHER        -> Default]

\* The matrix of the DiagonalProxy class documentation:
\*   A(0,0) = -2;  A(1,1) = 3;  A(2,2) = 5;
DocDiagonal ==
    [p \in Pos |-> CASE p = <<0, 0>> -> 0 - 2
                     [] p = <<1, 1>> -> 3
                     [] p = <<2, 2>> -> 5
                     [] OTHER        -> Default]

\* A matrix as constructed whose diagonal element (1,1) was initialized to 2:
\*   B( 3UL );  B(1,1) = 2;
InitializedMatrix == [ZeroMatrix EXCEPT ![<<1, 1>>] = 2]

\* Matrix A holds the documented example of its adaptor, matrix B is as
\* constructed but for one initialized diagonal element.
StartMatrix(m, k) ==
    IF m = "B" THEN InitializedMatrix
    ELSE IF k = "lower" THEN DocLower ELSE DocDiagonal

\* ------------------------------------------------------------- the proxy
NoProxy == [mat |-> "none", row |-> 0, col |-> 0, restricted |-> FALSE]

Live(s) == proxies[s].mat # "none"

\* Variants of the two flags with the comparison written wrongly.
LowerRestricted_inverted(row, column) == row > column
LowerRestricted_orEqual(row, column) == row <= column
DiagonalRestricted_upperOnly(row, column) == row < column

\* restricted_( row < column )
LowerRestricted(row, column) == row < column

\* restricted_( row != column )
DiagonalRestricted(row, column) == row # column

\* LowerProxy( MT& matrix, size_t row, size_t column ):
\* value_ refers to matrix(row,column), restricted_ is computed once.
LowerProxy(matrix, row, column) ==
    [mat |-> matrix, row |-> row, col |-> column,
     restricted |-> LowerRestricted(row, column)]

\* DiagonalProxy( MT& matrix, size_t row, size_t column )
DiagonalProxy(matrix, row, column) ==
    [mat |-> matrix, row |-> row, col |-> column,
     restricted |-> DiagonalRestricted(row, column)]

\* The slot a new proxy is put in: the first free one (0: none is free).
FreeSlot ==
    IF \A s \in Slots : Live(s) THEN 0
    ELSE CHOOSE s \in Slots : ~Live(s) /\ \A t \in Slots : ~Live(t) => s <= t

IsLowerProxy(s) == Live(s) /\ kindOf[proxies[s].mat] = "lower"
IsDiagonalProxy(s) == Live(s) /\ kindOf[proxies[s].mat] = "diagonal"

\* Two proxies refer to the same element.
SameCell(p, q) == p.mat = q.mat /\ p.row = q.row /\ p.col = q.col

\* The element value_ refers to, as it is now.
Elem(p) == mats[p.mat][<<p.row, p.col>>]

\* Variant of get() for a proxy that holds a copy of the value: the copy
\* does not follow the write the last call made to the element.
get_copy(s) == pre.mats[proxies[s].mat][<<proxies[s].row, proxies[s].col>>]

\* get(): return value_;
get(s) == Elem(proxies[s])

\* isRestricted(): return restricted_;
isRestricted(s) == proxies[s].restricted

\* ------------------------------------------------ arithmetic of the element
Abs(a) == IF a < 0 THEN 0 - a ELSE a

\* int / int truncates towards zero (b # 0).
CDiv(a, b) ==
    IF (a < 0) # (b < 0) THEN 0 - (Abs(a) \div Abs(b)) ELSE Abs(a) \div Abs(b)

\* int % int has the sign of the dividend (b # 0).
CMod(a, b) == a - b * CDiv(a, b)

\* ------------------------------------------------------- the call record
NoCall ==
    [op |-> "none", slot |-> 0, arg |-> 0, outcome |-> "none",
     ret |-> 0, val |-> 0, flag |-> FALSE]

Call(op, s, arg, outcome, ret, val, flag) ==
    [op |-> op, slot |-> s, arg |-> arg, outcome |-> outcome,
     ret |-> ret, val |-> val, flag |-> flag]

\* Every call records the state it starts from.
Snapshot == pre' = [mats |-> mats, proxies |-> proxies]

\* A fault of the process (integer division by zero) ends the behaviour.
Running == last.outcome # "fault"

CanStep == Running /\ nsteps < MaxSteps

\* ------------------------------------------- what the proxy calls leave alone
ThreadIds == {1, 2}

\* A thread that is in no call.
IdleThread == [pc |-> "idle", slot |-> 0, value |-> 0, reg |-> 0]

\* A sparse vector of size 0 and the record of no reduction.
EmptyVector == [size |-> 0, elements |-> <<>>]
NoReduction == [op |-> "none", value |-> 0, input |-> EmptyVector]

\* No test driver is run.
NoDriver ==
    [pc |-> "none", runs |-> 0, next |-> 0, order |-> <<>>,
     pending |-> "none", thrownBy |-> 0, status |-> "none"]

\* No thread is in a call, no vector is reduced and no test driver is run.
AsideIdle ==
    /\ threads = [t \in ThreadIds |-> IdleThread]
    /\ sv = EmptyVector
    /\ redux = NoReduction
    /\ driver = NoDriver

Init ==
    /\ kindOf \in { k \in [MatIds -> Kinds] : k["B"] = "diagonal" }
    /\ mats = [m \in MatIds |-> StartMatrix(m, kindOf[m])]
    /\ proxies = [s \in Slots |-> NoProxy]
    /\ last = NoCall
    /\ pre = [mats |-> mats, proxies |-> proxies]
    /\ nsteps = 0
    /\ AsideIdle

\* ------------------------------------------------------------ life cycle
\* Variant of the construction that initializes the element it binds to.
Construct_initializing(s, m, r, c) ==
    /\ CanStep
    /\ s = FreeSlot
    /\ proxies' = [proxies EXCEPT ![s] =
                       IF kindOf[m] = "lower" THEN LowerProxy(m, r, c)
                                              ELSE DiagonalProxy(m, r, c)]
    /\ mats' = [mats EXCEPT ![m][<<r, c>>] = Default]
    /\ Snapshot
    /\ last' = Call("construct", s, 0, "ok", s, 0, FALSE)
    /\ nsteps' = nsteps + 1
    /\ UNCHANGED <<aside, kindOf>>

\* matrix(row,column) on an adapted matrix: a proxy is constructed for the
\* position and handed to the caller.
Construct(s, m, r, c) ==
    /\ CanStep
    /\ s = FreeSlot
    /\ proxies' = [proxies EXCEPT ![s] =
                       IF kindOf[m] = "lower" THEN LowerProxy(m, r, c)
                                              ELSE DiagonalProxy(m, r, c)]
    /\ Snapshot
    /\ last' = Call("construct", s, 0, "ok", s, 0, FALSE)
    /\ nsteps' = nsteps + 1
    /\ UNCHANGED <<aside, kindOf, mats>>

\* Variant of the copy constructor that copies value_ and leaves the flag
\* unset.
CopyConstruct_flagDropped(s, t) ==
    /\ CanStep
    /\ s = FreeSlot
    /\ Live(t)
    /\ proxies' = [proxies EXCEPT ![s] =
                       [mat |-> proxies[t].mat, row |-> proxies[t].row,
                        col |-> proxies[t].col, restricted |-> FALSE]]
    /\ Snapshot
    /\ last' = Call("copy_construct", s, t, "ok", s, 0, FALSE)
    /\ nsteps' = nsteps + 1
    /\ UNCHANGED <<aside, kindOf, mats>>

\* LowerProxy( const LowerProxy& ) = default;
\* DiagonalProxy( const DiagonalProxy& dp ): value_( dp.value_ ),
\* restricted_( dp.restricted_ )
CopyConstruct(s, t) ==
    /\ CanStep
    /\ s = FreeSlot
    /\ Live(t)
    /\ proxies' = [proxies EXCEPT ![s] =
                       [mat |-> proxies[t].mat, row |-> proxies[t].row,
                        col |-> proxies[t].col,
                        restricted |-> proxies[t].restricted]]
    /\ Snapshot
    /\ last' = Call("copy_construct", s, t, "ok", s, 0, FALSE)
    /\ nsteps' = nsteps + 1
    /\ UNCHANGED <<aside, kindOf, mats>>

\* The proxy goes out of scope; the element stays as it is.
Destroy(s) ==
    /\ CanStep
    /\ Live(s)
    /\ proxies' = [proxies EXCEPT ![s] = NoProxy]
    /\ Snapshot
    /\ last' = Call("destroy", s, 0, "ok", 0, 0, FALSE)
    /\ nsteps' = nsteps + 1
    /\ UNCHANGED <<aside, kindOf, mats>>

\* ------------------------------------------------- the two ends of a write
\* BLAZE_THROW_INVALID_ARGUMENT( "Invalid assignment to upper matrix element" )
\* throw std::invalid_argument( "Invalid assignment to non-diagonal matrix element" )
\* The exception leaves the operator before value_ is touched.
ThrowInvalidArgument(s, op, arg) ==
    /\ Snapshot
    /\ last' = Call(op, s, arg, "invalid_argument", 0, 0, FALSE)
    /\ nsteps' = nsteps + 1
    /\ UNCHANGED <<aside, kindOf, mats, proxies>>

\* Variant of the store that writes the mirrored element (column, row) as
\* well, as a symmetric matrix would.
StoreAndReturn_mirrored(s, op, arg, w) ==
    /\ w \in Val
    /\ mats' = [mats EXCEPT ![proxies[s].mat][<<proxies[s].row, proxies[s].col>>] = w,
                            ![proxies[s].mat][<<proxies[s].col, proxies[s].row>>] = w]
    /\ Snapshot
    /\ last' = Call(op, s, arg, "ok", s, 0, FALSE)
    /\ nsteps' = nsteps + 1
    /\ UNCHANGED <<aside, kindOf, proxies>>

\* value_ <op>= ...;  return *this;
\* w is the value the element holds after the built-in operation.
StoreAndReturn(s, op, arg, w) ==
    /\ w \in Val
    /\ mats' = [mats EXCEPT ![proxies[s].mat][<<proxies[s].row, proxies[s].col>>] = w]
    /\ Snapshot
    /\ last' = Call(op, s, arg, "ok", s, 0, FALSE)
    /\ nsteps' = nsteps + 1
    /\ UNCHANGED <<aside, kindOf, proxies>>

\* Integer division or remainder by zero is undefined: the process faults,
\* or goes on with some value in the element.
DivideByZero(s, op, arg) ==
    \/ /\ Snapshot
       /\ last' = Call(op, s, arg, "fault", 0, 0, FALSE)
       /\ nsteps' = nsteps + 1
       /\ UNCHANGED <<aside, kindOf, mats, proxies>>
    \/ \E w \in Val : StoreAndReturn(s, op, arg, w)

\* ---------------------------------------- LowerProxy assignment operators
\* The operators a LowerProxy declares.
LowerProxyOps ==
    {"copy", "list", "nested_list", "assign", "add", "sub", "mul", "div", "mod"}

\* Variant of the copy assignment that rebinds: the target proxy is made to
\* refer to the source's element and no element is written.
LowerProxy_copy_assign_rebinding(s, t) ==
    /\ CanStep
    /\ IsLowerProxy(s)
    /\ IsLowerProxy(t)
    /\ IF proxies[s].restricted
         THEN ThrowInvalidArgument(s, "copy", t)
         ELSE /\ proxies' = [proxies EXCEPT ![s] = proxies[t]]
              /\ Snapshot
              /\ last' = Call("copy", s, t, "ok", s, 0, FALSE)
              /\ nsteps' = nsteps + 1
              /\ UNCHANGED <<aside, kindOf, mats>>

\* operator=( const LowerProxy& ): value_ = other.value_;
LowerProxy_copy_assign(s, t) ==
    /\ CanStep
    /\ IsLowerProxy(s)
    /\ IsLowerProxy(t)
    /\ IF proxies[s].restricted
         THEN ThrowInvalidArgument(s, "copy", t)
         ELSE StoreAndReturn(s, "copy", t, get(t))

\* operator=( initializer_list<T> list ): value_ = list;
\* What the element makes of the list is the element type's business.
LowerProxy_list_assign(s, list) ==
    /\ CanStep
    /\ IsLowerProxy(s)
    /\ IF proxies[s].restricted
         THEN ThrowInvalidArgument(s, "list", Len(list))
         ELSE \E w \in Val : StoreAndReturn(s, "list", Len(list), w)

\* operator=( initializer_list< initializer_list<T> > list ): value_ = list;
LowerProxy_nested_list_assign(s, list) ==
    /\ CanStep
    /\ IsLowerProxy(s)
    /\ IF proxies[s].restricted
         THEN ThrowInvalidArgument(s, "nested_list", Len(list))
         ELSE \E w \in Val : StoreAndReturn(s, "nested_list", Len(list), w)

\* Variant of operator=( const T& value ) that does not look at restricted_.
LowerProxy_assign_unchecked(s, value) ==
    /\ CanStep
    /\ IsLowerProxy(s)
    /\ StoreAndReturn(s, "assign", value, value)

\* operator=( const T& value ): value_ = value;
LowerProxy_assign(s, value) ==
    /\ CanStep
    /\ IsLowerProxy(s)
    /\ IF proxies[s].restricted
         THEN ThrowInvalidArgument(s, "assign", value)
         ELSE StoreAndReturn(s, "assign", value, value)

\* operator+=( const T& value ): value_ += value;
LowerProxy_add(s, value) ==
    /\ CanStep
    /\ IsLowerProxy(s)
    /\ IF proxies[s].restricted
         THEN ThrowInvalidArgument(s, "add", value)
         ELSE StoreAndReturn(s, "add", value, get(s) + value)

\* operator-=( const T& value ): value_ -= value;
LowerProxy_sub(s, value) ==
    /\ CanStep
    /\ IsLowerProxy(s)
    /\ IF proxies[s].restricted
         THEN ThrowInvalidArgument(s, "sub", value)
         ELSE StoreAndReturn(s, "sub", value, get(s) - value)

\* operator*=( const T& value ): value_ *= value;
LowerProxy_mul(s, value) ==
    /\ CanStep
    /\ IsLowerProxy(s)
    /\ IF proxies[s].restricted
         THEN ThrowInvalidArgument(s, "mul", value)
         ELSE StoreAndReturn(s, "mul", value, get(s) * value)

\* Variant of operator/=( const T& value ) that divides first and looks at
\* restricted_ afterwards.
LowerProxy_div_applyFirst(s, value) ==
    /\ CanStep
    /\ IsLowerProxy(s)
    /\ IF value = 0
         THEN DivideByZero(s, "div", value)
         ELSE IF proxies[s].restricted
                THEN ThrowInvalidArgument(s, "div", value)
                ELSE StoreAndReturn(s, "div", value, CDiv(get(s), value))

\* operator/=( const T& value ): value_ /= value;
LowerProxy_div(s, value) ==
    /\ CanStep
    /\ IsLowerProxy(s)
    /\ IF proxies[s].restricted
         THEN ThrowInvalidArgument(s, "div", value)
         ELSE IF value = 0
                THEN DivideByZero(s, "div", value)
                ELSE StoreAndReturn(s, "div", value, CDiv(get(s), value))

\* Variant of operator%=( const T& value ) that also throws
\* std::invalid_argument for a zero operand.
LowerProxy_mod_zeroRejected(s, value) ==
    /\ CanStep
    /\ IsLowerProxy(s)
    /\ IF proxies[s].restricted \/ value = 0
         THEN ThrowInvalidArgument(s, "mod", value)
         ELSE StoreAndReturn(s, "mod", value, CMod(get(s), value))

\* operator%=( const T& value ): value_ %= value;
LowerProxy_mod(s, value) ==
    /\ CanStep
    /\ IsLowerProxy(s)
    /\ IF proxies[s].restricted
         THEN ThrowInvalidArgument(s, "mod", value)
         ELSE IF value = 0
                THEN DivideByZero(s, "mod", value)
                ELSE StoreAndReturn(s, "mod", value, CMod(get(s), value))

\* ------------------------------------- DiagonalProxy assignment operators
\* The operators a DiagonalProxy declares.
DiagonalProxyOps == {"copy", "assign", "add", "sub", "mul", "div"}

\* operator=( const DiagonalProxy& ): value_ = other.value_;
DiagonalProxy_copy_assign(s, t) ==
    /\ CanStep
    /\ IsDiagonalProxy(s)
    /\ IsDiagonalProxy(t)
    /\ IF proxies[s].restricted
         THEN ThrowInvalidArgument(s, "copy", t)
         ELSE StoreAndReturn(s, "copy", t, get(t))

\* Variant of operator=( const T& value ) that does not look at restricted_.
DiagonalProxy_assign_unchecked(s, value) ==
    /\ CanStep
    /\ IsDiagonalProxy(s)
    /\ StoreAndReturn(s, "assign", value, value)

\* operator=( const T& value ): value_ = value;
DiagonalProxy_assign(s, value) ==
    /\ CanStep
    /\ IsDiagonalProxy(s)
    /\ IF proxies[s].restricted
         THEN ThrowInvalidArgument(s, "assign", value)
         ELSE StoreAndReturn(s, "assign", value, value)

\* Variant of operator+=( const T& value ) that lets a restricted proxy
\* through when the element would keep its value.
DiagonalProxy_add_zeroAllowed(s, value) ==
    /\ CanStep
    /\ IsDiagonalProxy(s)
    /\ IF proxies[s].restricted /\ value # 0
         THEN ThrowInvalidArgument(s, "add", value)
         ELSE StoreAndReturn(s, "add", value, get(s) + value)

\* operator+=( const T& value ): value_ += value;
DiagonalProxy_add(s, value) ==
    /\ CanStep
    /\ IsDiagonalProxy(s)
    /\ IF proxies[s].restricted
         THEN ThrowInvalidArgument(s, "add", value)
         ELSE StoreAndReturn(s, "add", value, get(s) + value)

\* operator-=( const T& value ): value_ -= value;
DiagonalProxy_sub(s, value) ==
    /\ CanStep
    /\ IsDiagonalProxy(s)
    /\ IF proxies[s].restricted
         THEN ThrowInvalidArgument(s, "sub", value)
         ELSE StoreAndReturn(s, "sub", value, get(s) - value)

\* Variant of operator*=( const T& value ) that multiplies a copy of the
\* element and leaves the element itself as it was.
DiagonalProxy_mul_temporary(s, value) ==
    /\ CanStep
    /\ IsDiagonalProxy(s)
    /\ IF proxies[s].restricted
         THEN ThrowInvalidArgument(s, "mul", value)
         ELSE StoreAndReturn(s, "mul", value, get(s))

\* operator*=( const T& value ): value_ *= value;
DiagonalProxy_mul(s, value) ==
    /\ CanStep
    /\ IsDiagonalProxy(s)
    /\ IF proxies[s].restricted
         THEN ThrowInvalidArgument(s, "mul", value)
         ELSE StoreAndReturn(s, "mul", value, get(s) * value)

\* Variant of operator/=( const T& value ) that does not look at restricted_.
DiagonalProxy_div_unchecked(s, value) ==
    /\ CanStep
    /\ IsDiagonalProxy(s)
    /\ IF value = 0
         THEN DivideByZero(s, "div", value)
         ELSE StoreAndReturn(s, "div", value, CDiv(get(s), value))

\* operator/=( const T& value ): value_ /= value;
DiagonalProxy_div(s, value) ==
    /\ CanStep
    /\ IsDiagonalProxy(s)
    /\ IF proxies[s].restricted
         THEN ThrowInvalidArgument(s, "div", value)
         ELSE IF value = 0
                THEN DivideByZero(s, "div", value)
                ELSE StoreAndReturn(s, "div", value, CDiv(get(s), value))

\* ------------------------------------------------ DiagonalProxy reset, clear
\* Variant of reset( proxy ) that rejects a restricted proxy as the
\* assignment operators do.
DiagonalProxy_reset_checked(s) ==
    /\ CanStep
    /\ IsDiagonalProxy(s)
    /\ IF proxies[s].restricted
         THEN ThrowInvalidArgument(s, "reset", 0)
         ELSE /\ mats' = [mats EXCEPT ![proxies[s].mat][<<proxies[s].row, proxies[s].col>>] = Default]
              /\ Snapshot
              /\ last' = Call("reset", s, 0, "ok", 0, 0, FALSE)
              /\ nsteps' = nsteps + 1
              /\ UNCHANGED <<aside, kindOf, proxies>>

\* reset( proxy ): reset( proxy.get() ), the element goes back to its
\* default initial value; restricted_ is not looked at.
DiagonalProxy_reset(s) ==
    /\ CanStep
    /\ IsDiagonalProxy(s)
    /\ mats' = [mats EXCEPT ![proxies[s].mat][<<proxies[s].row, proxies[s].col>>] = Default]
    /\ Snapshot
    /\ last' = Call("reset", s, 0, "ok", 0, 0, FALSE)
    /\ nsteps' = nsteps + 1
    /\ UNCHANGED <<aside, kindOf, proxies>>

\* clear( proxy ): clear( proxy.get() ), the element goes back to its
\* default initial state; restricted_ is not looked at.
DiagonalProxy_clear(s) ==
    /\ CanStep
    /\ IsDiagonalProxy(s)
    /\ mats' = [mats EXCEPT ![proxies[s].mat][<<proxies[s].row, proxies[s].col>>] = Default]
    /\ Snapshot
    /\ last' = Call("clear", s, 0, "ok", 0, 0, FALSE)
    /\ nsteps' = nsteps + 1
    /\ UNCHANGED <<aside, kindOf, proxies>>

\* ------------------------------------------------------------------ reads
\* A read changes nothing but the record of the last call.
Read(op, s, arg, val, flag) ==
    /\ Running
    /\ Snapshot
    /\ last' = Call(op, s, arg, "ok", 0, val, flag)
    /\ UNCHANGED <<aside, kindOf, mats, proxies, nsteps>>

\* LowerProxy::get(): return value_;
LowerProxy_get(s) == IsLowerProxy(s) /\ Read("get", s, 0, get(s), FALSE)

\* LowerProxy::operator ConstReference(): static_cast<ConstReference>( value_ )
LowerProxy_conv(s) == IsLowerProxy(s) /\ Read("conv", s, 0, Elem(proxies[s]), FALSE)

\* LowerProxy::isRestricted(): return restricted_;
LowerProxy_isRestricted(s) ==
    IsLowerProxy(s) /\ Read("isRestricted", s, 0, 0, proxies[s].restricted)

\* Variant of DiagonalProxy::get() that refuses to read a restricted element.
DiagonalProxy_get_checked(s) ==
    /\ IsDiagonalProxy(s)
    /\ Running
    /\ Snapshot
    /\ last' = Call("get", s, 0,
                    IF proxies[s].restricted THEN "invalid_argument" ELSE "ok",
                    0, IF proxies[s].restricted THEN 0 ELSE get(s), FALSE)
    /\ UNCHANGED <<aside, kindOf, mats, proxies, nsteps>>

\* DiagonalProxy::get(): return value_;
DiagonalProxy_get(s) == IsDiagonalProxy(s) /\ Read("get", s, 0, get(s), FALSE)

\* DiagonalProxy::operator RawReference(): return get();
DiagonalProxy_conv(s) == IsDiagonalProxy(s) /\ Read("conv", s, 0, get(s), FALSE)

\* DiagonalProxy::isRestricted(): return restricted_;
DiagonalProxy_isRestricted(s) ==
    IsDiagonalProxy(s) /\ Read("isRestricted", s, 0, 0, proxies[s].restricted)

\* Variant of operator== that compares which element is referred to.
EqualProxyProxy_identity(s, t) == SameCell(proxies[s], proxies[t])

\* operator==( const DiagonalProxy<MT1>& lhs, const DiagonalProxy<MT2>& rhs )
EqualProxyProxy(s, t) == get(s) = get(t)

\* operator==( const DiagonalProxy<MT>& lhs, const T& rhs )
EqualProxyValue(s, v) == get(s) = v

\* operator==( const T& lhs, const DiagonalProxy<MT>& rhs )
EqualValueProxy(v, s) == v = get(s)

DiagonalProxy_eq_pp(s, t) ==
    /\ IsDiagonalProxy(s)
    /\ IsDiagonalProxy(t)
    /\ Read("eq_pp", s, t, 0, EqualProxyProxy(s, t))

DiagonalProxy_eq_pv(s, v) ==
    IsDiagonalProxy(s) /\ Read("eq_pv", s, v, 0, EqualProxyValue(s, v))

DiagonalProxy_eq_vp(v, s) ==
    IsDiagonalProxy(s) /\ Read("eq_vp", s, v, 0, EqualValueProxy(v, s))

\* ---------------------------------------------------- the free predicates
\* The predicates of the element type, for the built-in type int:
\* isDefault( v ): v is in default state, v == int().
isDefault(v) == v = Default

\* isReal( v ): an element of built-in type represents a real number.
isReal(v) == TRUE

\* isZero( v ): v represents the numeric value 0.
isZero(v) == v = 0

\* isOne( v ): v represents the numeric value 1.
isOne(v) == v = 1

\* The free functions defined for a LowerProxy and for a DiagonalProxy.
LowerProxyHelpers == {"isDefault", "isReal", "isZero", "isOne"}
DiagonalProxyHelpers == {"reset", "clear", "isDefault"}

\* isDefault( const LowerProxy<MT>& proxy ): isDefault<RF>( proxy.get() )
LowerProxy_isDefault(s) ==
    IsLowerProxy(s) /\ Read("isDefault", s, 0, 0, isDefault(get(s)))

\* isReal( const LowerProxy<MT>& proxy ): isReal<RF>( proxy.get() )
LowerProxy_isReal(s) ==
    IsLowerProxy(s) /\ Read("isReal", s, 0, 0, isReal(get(s)))

\* Variant of isZero( proxy ) that answers from restricted_ instead of
\* reading the element.
LowerProxy_isZero_byFlag(s) ==
    IsLowerProxy(s) /\ Read("isZero", s, 0, 0, proxies[s].restricted)

\* isZero( const LowerProxy<MT>& proxy ): isZero<RF>( proxy.get() )
LowerProxy_isZero(s) ==
    IsLowerProxy(s) /\ Read("isZero", s, 0, 0, isZero(get(s)))

\* isOne( const LowerProxy<MT>& proxy ): isOne<RF>( proxy.get() )
LowerProxy_isOne(s) ==
    IsLowerProxy(s) /\ Read("isOne", s, 0, 0, isOne(get(s)))

\* isDefault( const DiagonalProxy<MT>& proxy ): isDefault( proxy.get() )
DiagonalProxy_isDefault(s) ==
    IsDiagonalProxy(s) /\ Read("isDefault", s, 0, 0, isDefault(get(s)))

\* ------------------------------------------------------------ next state
Next ==
    \/ \E s \in Slots, m \in MatIds, r \in Idx, c \in Idx : Construct(s, m, r, c)
    \/ \E s \in Slots, t \in Slots : CopyConstruct(s, t)
    \/ \E s \in Slots : Destroy(s)
    \/ \E s \in Slots, t \in Slots : LowerProxy_copy_assign(s, t)
    \/ \E s \in Slots, list \in Lists : LowerProxy_list_assign(s, list)
    \/ \E s \in Slots, list \in NestedLists : LowerProxy_nested_list_assign(s, list)
    \/ \E s \in Slots, v \in Operands : LowerProxy_assign(s, v)
    \/ \E s \in Slots, v \in Operands : LowerProxy_add(s, v)
    \/ \E s \in Slots, v \in Operands : LowerProxy_sub(s, v)
    \/ \E s \in Slots, v \in Operands : LowerProxy_mul(s, v)
    \/ \E s \in Slots, v \in Operands : LowerProxy_div(s, v)
    \/ \E s \in Slots, v \in Operands : LowerProxy_mod(s, v)
    \/ \E s \in Slots, t \in Slots : DiagonalProxy_copy_assign(s, t)
    \/ \E s \in Slots, v \in Operands : DiagonalProxy_assign(s, v)
    \/ \E s \in Slots, v \in Operands : DiagonalProxy_add(s, v)
    \/ \E s \in Slots, v \in Operands : DiagonalProxy_sub(s, v)
    \/ \E s \in Slots, v \in Operands : DiagonalProxy_mul(s, v)
    \/ \E s \in Slots, v \in Operands : DiagonalProxy_div(s, v)
    \/ \E s \in Slots : DiagonalProxy_reset(s)
    \/ \E s \in Slots : DiagonalProxy_clear(s)
    \/ \E s \in Slots : LowerProxy_get(s)
    \/ \E s \in Slots : LowerProxy_conv(s)
    \/ \E s \in Slots : LowerProxy_isRestricted(s)
    \/ \E s \in Slots : DiagonalProxy_get(s)
    \/ \E s \in Slots : DiagonalProxy_conv(s)
    \/ \E s \in Slots : DiagonalProxy_isRestricted(s)
    \/ \E s \in Slots : LowerProxy_isDefault(s)
    \/ \E s \in Slots : LowerProxy_isReal(s)
    \/ \E s \in Slots : LowerProxy_isZero(s)
    \/ \E s \in Slots : LowerProxy_isOne(s)
    \/ \E s \in Slots : DiagonalProxy_isDefault(s)
    \/ \E s \in Slots, t \in Slots : DiagonalProxy_eq_pp(s, t)
    \/ \E s \in Slots, v \in CompareValues : DiagonalProxy_eq_pv(s, v)
    \/ \E s \in Slots, v \in CompareValues : DiagonalProxy_eq_vp(v, s)

Spec == Init /\ [][Next]_vars

\* ============================================ writes through RawReference
\* get() of both classes, and the conversion operator of DiagonalProxy,
\* return RawReference, a reference-to-non-const to the element: the caller
\* can assign to it, and restricted_ is not looked at.
RawValues == {0, 7}

\* The element behind the proxy is assigned through the reference.
WriteThroughReference(s, op, value) ==
    /\ CanStep
    /\ mats' = [mats EXCEPT ![proxies[s].mat][<<proxies[s].row, proxies[s].col>>] = value]
    /\ Snapshot
    /\ last' = Call(op, s, value, "ok", 0, 0, FALSE)
    /\ nsteps' = nsteps + 1
    /\ UNCHANGED <<aside, kindOf, proxies>>

\* Variant of get() whose reference cannot be written for a restricted
\* proxy.
LowerProxy_get_write_checked(s, value) ==
    /\ IsLowerProxy(s)
    /\ CanStep
    /\ IF proxies[s].restricted
         THEN ThrowInvalidArgument(s, "get_write", value)
         ELSE WriteThroughReference(s, "get_write", value)

\* proxy.get() = value, for a LowerProxy
LowerProxy_get_write(s, value) ==
    IsLowerProxy(s) /\ WriteThroughReference(s, "get_write", value)

\* proxy.get() = value, for a DiagonalProxy
DiagonalProxy_get_write(s, value) ==
    IsDiagonalProxy(s) /\ WriteThroughReference(s, "get_write", value)

\* static_cast<RawReference>( proxy ) = value, for a DiagonalProxy
DiagonalProxy_conv_write(s, value) ==
    IsDiagonalProxy(s) /\ WriteThroughReference(s, "conv_write", value)

NextRaw ==
    \/ Next
    \/ \E s \in Slots, v \in RawValues : LowerProxy_get_write(s, v)
    \/ \E s \in Slots, v \in RawValues : DiagonalProxy_get_write(s, v)
    \/ \E s \in Slots, v \in RawValues : DiagonalProxy_conv_write(s, v)

SpecRaw == Init /\ [][NextRaw]_vars

\* =========================================== reduction of a sparse vector
\* blaze/math/expressions/SVecReduceExpr.h
\*
\* A sparse vector has a size and stores some of its elements, each as an
\* (index, value) pair, in the order its iterators visit them; every element
\* that is not stored is zero.  A stored value may itself be 0.
Indices(n) == 0 .. (n - 1)

\* The values the element with index i is given: the c-th of them, and all.
StoredValue(i, c) == << 0 - 1, 0, i + 1 >>[c]

StoredValues(i) == { StoredValue(i, c) : c \in 1 .. 3 }

Element(i, v) == [index |-> i, value |-> v]

\* The orders in which k of the n indices can be stored.
Orders(n, k) ==
    { q \in [1 .. k -> Indices(n)] :
          \A a \in 1 .. k : \A b \in 1 .. k : a # b => q[a] # q[b] }

\* The elements stored in the order q, with the choice c of their values.
Storage(q, c) == [a \in DOMAIN q |-> Element(q[a], StoredValue(q[a], c[a]))]

\* const SparseVector<VT,TF>& sv
Vector(n, q, c) == [size |-> n, elements |-> Storage(q, c)]

\* Add(): a + b     Mult(): a * b
Add(a, b) == a + b
Mult(a, b) == a * b

ReduceOps == {"Add", "Mult"}

\* op( redux, element->value() )
Apply(op, a, b) == IF op = "Add" THEN Add(a, b) ELSE Mult(a, b)

\* for( ; element!=end; ++element ) redux = op( redux, element->value() );
RECURSIVE Loop(_, _, _, _)
Loop(op, redux0, elements, element) ==
    IF element > Len(elements) THEN redux0
    ELSE Loop(op, Apply(op, redux0, elements[element].value), elements, element + 1)

\* Variant of reduce that starts from the default value ET{} and folds every
\* stored element into it.
reduce_fromDefault(v, op) ==
    IF v.size = 0 THEN Default
    ELSE Loop(op, Default, v.elements, 1)

\* reduce( sv, op ):
\*   if( (~sv).size() == 0UL ) return ET{};
\*   if( element == end ) return ET{};
\*   ET redux( element->value() );  ++element;  the loop;  return redux;
reduce(v, op) ==
    IF v.size = 0 THEN Default
    ELSE IF Len(v.elements) = 0 THEN Default
    ELSE Loop(op, v.elements[1].value, v.elements, 2)

\* Variant of sum that leaves the first stored element out.
sum_withoutFirst(v) ==
    IF Len(v.elements) = 0 THEN Default
    ELSE Loop("Add", Default, v.elements, 2)

\* sum( sv ): return reduce( ~sv, Add() );
sum(v) == reduce(v, "Add")

\* The element of v with index i, stored or not.
At(v, i) ==
    IF \E k \in 1 .. Len(v.elements) : v.elements[k].index = i
    THEN v.elements[CHOOSE k \in 1 .. Len(v.elements) : v.elements[k].index = i].value
    ELSE 0

\* Variant of prod that multiplies the elements of all size() positions.
RECURSIVE DenseProduct(_, _)
DenseProduct(v, i) ==
    IF i >= v.size THEN 1 ELSE At(v, i) * DenseProduct(v, i + 1)

prod_allPositions(v) == IF v.size = 0 THEN Default ELSE DenseProduct(v, 0)

\* prod( sv ): return reduce( ~sv, Mult() );
prod(v) == reduce(v, "Mult")

\* The proxies' part of the state when no proxy call is made.
ProxiesIdle ==
    /\ kindOf = [m \in MatIds |-> "diagonal"]
    /\ mats = [m \in MatIds |-> StartMatrix(m, kindOf[m])]
    /\ proxies = [s \in Slots |-> NoProxy]
    /\ last = NoCall
    /\ pre = [mats |-> mats, proxies |-> proxies]
    /\ nsteps = 0

InitReduce ==
    /\ ProxiesIdle
    /\ threads = [t \in ThreadIds |-> IdleThread]
    /\ \E n \in 0 .. MaxSize : \E k \in 0 .. n :
           \E q \in Orders(n, k) : \E c \in [1 .. k -> 1 .. 3] :
               sv = Vector(n, q, c)
    /\ redux = NoReduction
    /\ driver = NoDriver

\* The vector is taken by reference-to-const: a reduction leaves it alone.
Reduced(name, value) ==
    /\ redux' = [op |-> name, value |-> value, input |-> sv]
    /\ UNCHANGED <<sv, threads, driver, kindOf, mats, proxies, last, pre, nsteps>>

Reduce(op) == Reduced(op, reduce(sv, op))
Sum == Reduced("sum", sum(sv))
Prod == Reduced("prod", prod(sv))

NextReduce ==
    \/ \E op \in ReduceOps : Reduce(op)
    \/ Sum
    \/ Prod

SpecReduce == InitReduce /\ [][NextReduce]_vars

\* ===================================== operator+= called by two threads
\* Two threads, each with a proxy of its own (thread t holds the proxy in
\* slot t), call operator+= with no synchronization.  The proxy has no lock:
\* value_ += value reads the element and then writes it, and another thread
\* can run between the two.
InitThreads ==
    /\ kindOf \in { k \in [MatIds -> Kinds] : k["B"] = "diagonal" }
    /\ mats = [m \in MatIds |-> StartMatrix(m, kindOf[m])]
    /\ \E p \in [ThreadIds -> Pos] :
          proxies = [s \in Slots |->
                        IF s \in ThreadIds
                        THEN IF kindOf["A"] = "lower"
                             THEN LowerProxy("A", p[s][1], p[s][2])
                             ELSE DiagonalProxy("A", p[s][1], p[s][2])
                        ELSE NoProxy]
    /\ last = NoCall
    /\ pre = [mats |-> mats, proxies |-> proxies]
    /\ nsteps = 0
    /\ threads = [t \in ThreadIds |-> IdleThread]
    /\ sv = EmptyVector
    /\ redux = NoReduction
    /\ driver = NoDriver

\* What a step of a thread leaves alone besides the element.
ThreadFrame == UNCHANGED <<kindOf, proxies, last, pre, nsteps, sv, redux, driver>>

\* Thread t calls proxy += value.
ThreadCall(t, value) ==
    /\ threads[t].pc = "idle"
    /\ threads' = [threads EXCEPT ![t] =
                      [pc |-> "check", slot |-> t, value |-> value, reg |-> 0]]
    /\ UNCHANGED mats
    /\ ThreadFrame

\* if( restricted_ ) throw std::invalid_argument
ThreadCheck(t) ==
    /\ threads[t].pc = "check"
    /\ threads' = [threads EXCEPT ![t].pc =
                      IF proxies[threads[t].slot].restricted THEN "thrown" ELSE "load"]
    /\ UNCHANGED mats
    /\ ThreadFrame

\* value_ += value, first half: the element is read.
ThreadLoad(t) ==
    /\ threads[t].pc = "load"
    /\ threads' = [threads EXCEPT ![t].pc = "store",
                                  ![t].reg = get(threads[t].slot)]
    /\ UNCHANGED mats
    /\ ThreadFrame

\* Variant of the second half that adds to what the element holds at the
\* time of the write, as an atomic addition would.
ThreadStore_atomic(t) ==
    /\ threads[t].pc = "store"
    /\ mats' = [mats EXCEPT ![proxies[threads[t].slot].mat]
                                [<<proxies[threads[t].slot].row,
                                   proxies[threads[t].slot].col>>] =
                                get(threads[t].slot) + threads[t].value]
    /\ threads' = [threads EXCEPT ![t].pc = "done"]
    /\ ThreadFrame

\* value_ += value, second half: the sum of the value read and the operand
\* is written to the element;  return *this;
ThreadStore(t) ==
    /\ threads[t].pc = "store"
    /\ mats' = [mats EXCEPT ![proxies[threads[t].slot].mat]
                                [<<proxies[threads[t].slot].row,
                                   proxies[threads[t].slot].col>>] =
                                threads[t].reg + threads[t].value]
    /\ threads' = [threads EXCEPT ![t].pc = "done"]
    /\ ThreadFrame

NextThreads ==
    \/ \E t \in ThreadIds, value \in Operands : ThreadCall(t, value)
    \/ \E t \in ThreadIds : ThreadCheck(t)
    \/ \E t \in ThreadIds : ThreadLoad(t)
    \/ \E t \in ThreadIds : ThreadStore(t)

SpecThreads == InitThreads /\ [][NextThreads]_vars

\* ============================ the relational operators of DiagonalProxy
\* DiagonalProxy.h: operator!=, <, >, <=, >= between two proxies, between a
\* proxy and a value and between a value and a proxy.  Each compares what
\* get() returns; none looks at restricted_.
\* operator!=( const DiagonalProxy<MT1>& lhs, const DiagonalProxy<MT2>& rhs )
NotEqualProxyProxy(s, t) == get(s) # get(t)

DiagonalProxy_ne_pp(s, t) ==
    /\ IsDiagonalProxy(s)
    /\ IsDiagonalProxy(t)
    /\ Read("ne_pp", s, t, 0, NotEqualProxyProxy(s, t))

\* operator!=( const DiagonalProxy<MT>& lhs, const T& rhs )
NotEqualProxyValue(s, v) == get(s) # v

DiagonalProxy_ne_pv(s, v) ==
    IsDiagonalProxy(s) /\ Read("ne_pv", s, v, 0, NotEqualProxyValue(s, v))

\* operator!=( const T& lhs, const DiagonalProxy<MT>& rhs )
NotEqualValueProxy(v, s) == v # get(s)

DiagonalProxy_ne_vp(v, s) ==
    IsDiagonalProxy(s) /\ Read("ne_vp", s, v, 0, NotEqualValueProxy(v, s))

\* operator<( const DiagonalProxy<MT1>& lhs, const DiagonalProxy<MT2>& rhs )
LessProxyProxy(s, t) == get(s) < get(t)

DiagonalProxy_lt_pp(s, t) ==
    /\ IsDiagonalProxy(s)
    /\ IsDiagonalProxy(t)
    /\ Read("lt_pp", s, t, 0, LessProxyProxy(s, t))

\* operator<( const DiagonalProxy<MT>& lhs, const T& rhs )
LessProxyValue(s, v) == get(s) < v

DiagonalProxy_lt_pv(s, v) ==
    IsDiagonalProxy(s) /\ Read("lt_pv", s, v, 0, LessProxyValue(s, v))

\* operator<( const T& lhs, const DiagonalProxy<MT>& rhs )
LessValueProxy(v, s) == v < get(s)

DiagonalProxy_lt_vp(v, s) ==
    IsDiagonalProxy(s) /\ Read("lt_vp", s, v, 0, LessValueProxy(v, s))

\* operator>( const DiagonalProxy<MT1>& lhs, const DiagonalProxy<MT2>& rhs )
GreaterProxyProxy(s, t) == get(s) > get(t)

DiagonalProxy_gt_pp(s, t) ==
    /\ IsDiagonalProxy(s)
    /\ IsDiagonalProxy(t)
    /\ Read("gt_pp", s, t, 0, GreaterProxyProxy(s, t))

\* operator>( const DiagonalProxy<MT>& lhs, const T& rhs )
GreaterProxyValue(s, v) == get(s) > v

DiagonalProxy_gt_pv(s, v) ==
    IsDiagonalProxy(s) /\ Read("gt_pv", s, v, 0, GreaterProxyValue(s, v))

\* operator>( const T& lhs, const DiagonalProxy<MT>& rhs )
GreaterValueProxy(v, s) == v > get(s)

DiagonalProxy_gt_vp(v, s) ==
    IsDiagonalProxy(s) /\ Read("gt_vp", s, v, 0, GreaterValueProxy(v, s))

\* operator<=( const DiagonalProxy<MT1>& lhs, const DiagonalProxy<MT2>& rhs )
LessEqualProxyProxy(s, t) == get(s) <= get(t)

DiagonalProxy_le_pp(s, t) ==
    /\ IsDiagonalProxy(s)
    /\ IsDiagonalProxy(t)
    /\ Read("le_pp", s, t, 0, LessEqualProxyProxy(s, t))

\* operator<=( const DiagonalProxy<MT>& lhs, const T& rhs )
LessEqualProxyValue(s, v) == get(s) <= v

DiagonalProxy_le_pv(s, v) ==
    IsDiagonalProxy(s) /\ Read("le_pv", s, v, 0, LessEqualProxyValue(s, v))

\* operator<=( const T& lhs, const DiagonalProxy<MT>& rhs )
LessEqualValueProxy(v, s) == v <= get(s)

DiagonalProxy_le_vp(v, s) ==
    IsDiagonalProxy(s) /\ Read("le_vp", s, v, 0, LessEqualValueProxy(v, s))

\* Variant of operator>= between two proxies that leaves out equality.
GreaterEqualProxyProxy_strict(s, t) == get(s) > get(t)

\* operator>=( const DiagonalProxy<MT1>& lhs, const DiagonalProxy<MT2>& rhs )
GreaterEqualProxyProxy(s, t) == get(s) >= get(t)

DiagonalProxy_ge_pp(s, t) ==
    /\ IsDiagonalProxy(s)
    /\ IsDiagonalProxy(t)
    /\ Read("ge_pp", s, t, 0, GreaterEqualProxyProxy(s, t))

\* operator>=( const DiagonalProxy<MT>& lhs, const T& rhs )
GreaterEqualProxyValue(s, v) == get(s) >= v

DiagonalProxy_ge_pv(s, v) ==
    IsDiagonalProxy(s) /\ Read("ge_pv", s, v, 0, GreaterEqualProxyValue(s, v))

\* operator>=( const T& lhs, const DiagonalProxy<MT>& rhs )
GreaterEqualValueProxy(v, s) == v >= get(s)

DiagonalProxy_ge_vp(v, s) ==
    IsDiagonalProxy(s) /\ Read("ge_vp", s, v, 0, GreaterEqualValueProxy(v, s))

\* The two proxies that are compared.
ComparedSlots == {1, 2}

\* Two diagonal matrices, A as documented and B with one element initialized,
\* and two proxies constructed for any positions of them, restricted or not.
InitCompare ==
    /\ kindOf = [m \in MatIds |-> "diagonal"]
    /\ mats = [m \in MatIds |-> StartMatrix(m, kindOf[m])]
    /\ \E m \in [ComparedSlots -> MatIds] : \E p \in [ComparedSlots -> Pos] :
          proxies = [s \in Slots |->
                        IF s \in ComparedSlots
                        THEN DiagonalProxy(m[s], p[s][1], p[s][2])
                        ELSE NoProxy]
    /\ last = NoCall
    /\ pre = [mats |-> mats, proxies |-> proxies]
    /\ nsteps = 0
    /\ AsideIdle

NextCompare ==
    \/ \E s \in Slots, t \in Slots : DiagonalProxy_eq_pp(s, t)
    \/ \E s \in Slots, v \in CompareValues : DiagonalProxy_eq_pv(s, v)
    \/ \E s \in Slots, v \in CompareValues : DiagonalProxy_eq_vp(v, s)
    \/ \E s \in Slots, t \in Slots : DiagonalProxy_ne_pp(s, t)
    \/ \E s \in Slots, v \in CompareValues : DiagonalProxy_ne_pv(s, v)
    \/ \E s \in Slots, v \in CompareValues : DiagonalProxy_ne_vp(v, s)
    \/ \E s \in Slots, t \in Slots : DiagonalProxy_lt_pp(s, t)
    \/ \E s \in Slots, v \in CompareValues : DiagonalProxy_lt_pv(s, v)
    \/ \E s \in Slots, v \in CompareValues : DiagonalProxy_lt_vp(v, s)
    \/ \E s \in Slots, t \in Slots : DiagonalProxy_gt_pp(s, t)
    \/ \E s \in Slots, v \in CompareValues : DiagonalProxy_gt_pv(s, v)
    \/ \E s \in Slots, v \in CompareValues : DiagonalProxy_gt_vp(v, s)
    \/ \E s \in Slots, t \in Slots : DiagonalProxy_le_pp(s, t)
    \/ \E s \in Slots, v \in CompareValues : DiagonalProxy_le_pv(s, v)
    \/ \E s \in Slots, v \in CompareValues : DiagonalProxy_le_vp(v, s)
    \/ \E s \in Slots, t \in Slots : DiagonalProxy_ge_pp(s, t)
    \/ \E s \in Slots, v \in CompareValues : DiagonalProxy_ge_pv(s, v)
    \/ \E s \in Slots, v \in CompareValues : DiagonalProxy_ge_vp(v, s)

SpecCompare == InitCompare /\ [][NextCompare]_vars

\* ============================================ main of a test driver
\* src/unnamed/part_000 (MIbMIb.cpp) and the drivers under blazetest/src:
\*
\*   int main() {
\*      try { <the operation tests, one after the other> }
\*      catch( std::exception& ex ) { std::cerr << ...; return EXIT_FAILURE; }
\*      return EXIT_SUCCESS;
\*   }
\*
\* A driver lists between one operation test (DenseLUTest) and MaxRuns of
\* them (MIbMIb: seven in the loop over i, six with large matrices).  What
\* an operation test throws is up to the test: an exception of a class
\* derived from std::exception, or one of any other type.
StdExceptions == {"std::runtime_error", "std::invalid_argument"}
Exceptions == StdExceptions \cup {"other"}

\* catch( std::exception& ex ) matches the classes derived from std::exception.
IsStdException(e) == e \in StdExceptions

\* main is entered: no operation test has run.
InitDriver ==
    /\ ProxiesIdle
    /\ threads = [t \in ThreadIds |-> IdleThread]
    /\ sv = EmptyVector
    /\ redux = NoReduction
    /\ \E n \in 1 .. MaxRuns :
          driver = [pc |-> "try", runs |-> n, next |-> 1, order |-> <<>>,
                    pending |-> "none", thrownBy |-> 0, status |-> "none"]

\* What a step of main leaves alone.
DriverFrame ==
    UNCHANGED <<kindOf, mats, proxies, last, pre, nsteps, threads, sv, redux>>

\* The next operation test runs and completes.
RunCompletes ==
    /\ driver.pc = "try"
    /\ driver.next <= driver.runs
    /\ driver' = [driver EXCEPT !.next = driver.next + 1,
                                !.order = Append(driver.order, driver.next)]
    /\ DriverFrame

\* The next operation test runs and throws e.
RunThrows(e) ==
    /\ driver.pc = "try"
    /\ driver.next <= driver.runs
    /\ driver' = [driver EXCEPT !.pc = "thrown",
                                !.order = Append(driver.order, driver.next),
                                !.pending = e,
                                !.thrownBy = driver.next]
    /\ DriverFrame

\* Variant of the handler that goes on with the operation test after the
\* one that threw.
Catch_resuming ==
    /\ driver.pc = "thrown"
    /\ IsStdException(driver.pending)
    /\ driver' = [driver EXCEPT !.pc = "try", !.next = driver.thrownBy + 1]
    /\ DriverFrame

\* catch( std::exception& ex ) { ... return EXIT_FAILURE; }
Catch ==
    /\ driver.pc = "thrown"
    /\ IsStdException(driver.pending)
    /\ driver' = [driver EXCEPT !.pc = "returned", !.status = "EXIT_FAILURE"]
    /\ DriverFrame

\* No handler of main matches: the exception leaves main.
Escape ==
    /\ driver.pc = "thrown"
    /\ ~IsStdException(driver.pending)
    /\ driver' = [driver EXCEPT !.pc = "terminated"]
    /\ DriverFrame

\* return EXIT_SUCCESS;
ReturnSuccess ==
    /\ driver.pc = "try"
    /\ driver.next > driver.runs
    /\ driver' = [driver EXCEPT !.pc = "returned", !.status = "EXIT_SUCCESS"]
    /\ DriverFrame

NextDriver ==
    \/ RunCompletes
    \/ \E e \in Exceptions : RunThrows(e)
    \/ Catch
    \/ Escape
    \/ ReturnSuccess

SpecDriver == InitDriver /\ [][NextDriver]_vars

\* ============================================================== claims
\* Helpers of the statements below.  The last call is last.op, made through
\* the proxy in slot last.slot; pre is the state that call started from.

\* The proxy the last call was made through.
Target == proxies[last.slot]

\* The value an element held when the last call started.
PreElem(p) == pre.mats[p.mat][<<p.row, p.col>>]

\* The last call left every element but the one at pos of matrix m alone.
OnlyChanged(m, pos) ==
    \A n \in MatIds : \A q \in Pos :
        (n # m \/ q # pos) => mats[n][q] = pre.mats[n][q]

\* The last call changed no element and no proxy.
NothingChanged == mats = pre.mats /\ proxies = pre.proxies

\* C1: in a lower matrix every element above the diagonal (r < c) holds the
\* default value, whatever proxies were constructed and whatever assignment
\* operators were called through them.
C1_LowerInvariant ==
    \A m \in MatIds : kindOf[m] = "lower" =>
        \A r \in Idx, c \in Idx : r < c => mats[m][<<r, c>>] = Default

\* A copy assignment from a proxy whose element is not default to a proxy
\* of a position above the diagonal was just attempted.
C1_Witness ==
    /\ last.op = "copy"
    /\ last.outcome = "invalid_argument"
    /\ IsLowerProxy(last.slot)
    /\ Target.row < Target.col
    /\ IsLowerProxy(last.arg)
    /\ get(last.arg) # Default

\* C2: in a diagonal matrix every element off the diagonal (r # c) holds the
\* default value, whatever proxies were constructed and whatever assignment
\* operators, reset and clear were called through them.
C2_DiagonalInvariant ==
    \A m \in MatIds : kindOf[m] = "diagonal" =>
        \A r \in Idx, c \in Idx : r # c => mats[m][<<r, c>>] = Default

\* A copy assignment from a proxy whose element is not default to a proxy
\* of a position below the diagonal was just attempted.
C2_Witness ==
    /\ last.op = "copy"
    /\ last.outcome = "invalid_argument"
    /\ IsDiagonalProxy(last.slot)
    /\ Target.row > Target.col
    /\ IsDiagonalProxy(last.arg)
    /\ get(last.arg) # Default

\* C3: every assignment operator called through a LowerProxy of a position
\* with r < c ends in std::invalid_argument, whatever the operand, and no
\* element of any matrix changes, so that the element reads as before.
C3_RestrictedLowerWriteRejected ==
    ( /\ last.op \in LowerProxyOps
      /\ IsLowerProxy(last.slot)
      /\ Target.row < Target.col )
    => ( /\ last.outcome = "invalid_argument"
         /\ NothingChanged
         /\ get(last.slot) = PreElem(Target) )

\* proxy = 7 at (0,2) of a lower matrix was rejected and the element reads 0.
C3_Witness ==
    /\ last.op = "assign"
    /\ last.arg = 7
    /\ last.outcome = "invalid_argument"
    /\ IsLowerProxy(last.slot)
    /\ Target.row = 0
    /\ Target.col = 2
    /\ get(last.slot) = 0

\* C4: proxy = v through a LowerProxy of a position with r >= c succeeds and
\* leaves v in the element; the element keeps its value through every call
\* that is not a successful write to it (reads, constructions, rejected
\* writes, writes to other elements); and get() through any proxy of the
\* position, also one constructed later, returns the value of the element.
C4_UnrestrictedLowerAssign ==
    /\ ( /\ last.op = "assign"
         /\ IsLowerProxy(last.slot)
         /\ Target.row >= Target.col )
       => ( /\ last.outcome = "ok"
            /\ \A t \in Slots :
                  (Live(t) /\ SameCell(proxies[t], Target)) => get(t) = last.arg )
    /\ (last.op = "get" /\ IsLowerProxy(last.slot))
       => ( /\ last.outcome = "ok"
            /\ last.val = get(last.slot)
            /\ NothingChanged )
    /\ \A m \in MatIds : \A pos \in Pos :
          ( /\ kindOf[m] = "lower"
            /\ ~ ( /\ last.op \in LowerProxyOps
                   /\ last.outcome = "ok"
                   /\ Target.mat = m
                   /\ <<Target.row, Target.col>> = pos ) )
          => mats[m][pos] = pre.mats[m][pos]

\* get() through the proxy constructed second returns the 7 that was
\* assigned to the diagonal element (1,1) through the first.
C4_Witness ==
    /\ last.op = "get"
    /\ last.slot = 2
    /\ last.val = 7
    /\ IsLowerProxy(1)
    /\ IsLowerProxy(2)
    /\ SameCell(proxies[1], proxies[2])
    /\ proxies[1].row = 1
    /\ proxies[1].col = 1
    /\ nsteps = 3

\* C5: every assignment operator called through a DiagonalProxy of a position
\* with r # c, below or above the diagonal, ends in std::invalid_argument and
\* changes no element; proxy = v at a position with r = c succeeds and leaves
\* v in the element, which get() then returns.
C5_DiagonalWrites ==
    /\ ( /\ last.op \in DiagonalProxyOps
         /\ IsDiagonalProxy(last.slot)
         /\ Target.row # Target.col )
       => (last.outcome = "invalid_argument" /\ NothingChanged)
    /\ ( /\ last.op = "assign"
         /\ IsDiagonalProxy(last.slot)
         /\ Target.row = Target.col )
       => (last.outcome = "ok" /\ get(last.slot) = last.arg)
    /\ (last.op = "get" /\ IsDiagonalProxy(last.slot))
       => ( /\ last.outcome = "ok"
            /\ last.val = get(last.slot)
            /\ NothingChanged )

\* proxy += 7 at (2,0), below the diagonal of a diagonal matrix, was
\* rejected and the element reads 0.
C5_Witness ==
    /\ last.op = "add"
    /\ last.arg = 7
    /\ last.outcome = "invalid_argument"
    /\ IsDiagonalProxy(last.slot)
    /\ Target.row = 2
    /\ Target.col = 0
    /\ get(last.slot) = 0

\* The operations the write contract names: assign, add-into, subtract-into,
\* multiply-into, divide-into, remainder-into and list assignment.
MutatingOperations == {"assign", "add", "sub", "mul", "div", "mod", "list"}

\* A call of the operator named op through the proxy in slot s.
OperatorCall(s, op) ==
    \/ op = "copy" /\ \E t \in Slots :
           LowerProxy_copy_assign(s, t) \/ DiagonalProxy_copy_assign(s, t)
    \/ op = "list" /\ \E list \in Lists : LowerProxy_list_assign(s, list)
    \/ op = "nested_list" /\ \E list \in NestedLists :
           LowerProxy_nested_list_assign(s, list)
    \/ op = "assign" /\ \E v \in Operands :
           LowerProxy_assign(s, v) \/ DiagonalProxy_assign(s, v)
    \/ op = "add" /\ \E v \in Operands :
           LowerProxy_add(s, v) \/ DiagonalProxy_add(s, v)
    \/ op = "sub" /\ \E v \in Operands :
           LowerProxy_sub(s, v) \/ DiagonalProxy_sub(s, v)
    \/ op = "mul" /\ \E v \in Operands :
           LowerProxy_mul(s, v) \/ DiagonalProxy_mul(s, v)
    \/ op = "div" /\ \E v \in Operands :
           LowerProxy_div(s, v) \/ DiagonalProxy_div(s, v)
    \/ op = "mod" /\ \E v \in Operands : LowerProxy_mod(s, v)

\* The value old <op> arg of the built-in type, said without the model's
\* own division: the quotient rounds towards zero, the remainder is what is
\* left of old and has its sign.
IsResult(op, old, arg, new) ==
    CASE op = "assign" -> new = arg
      [] op = "add"    -> new = old + arg
      [] op = "sub"    -> new + arg = old
      [] op = "mul"    -> new = old * arg
      [] op = "div"    -> /\ Abs(new * arg) <= Abs(old)
                          /\ Abs(old) - Abs(new * arg) < Abs(arg)
                          /\ (new # 0 => ((new < 0) = ((old < 0) # (arg < 0))))
      [] op = "mod"    -> /\ Abs(new) < Abs(arg)
                          /\ (new # 0 => ((new < 0) = (old < 0)))
                          /\ \E q \in Val : q * arg + new = old
      [] OTHER         -> TRUE

AllOperators == LowerProxyOps \cup DiagonalProxyOps

\* The last call, an assignment operator, followed the two-step protocol.
FollowedProtocol ==
    (last.op \in AllOperators) =>
        /\ proxies = pre.proxies
        /\ IF Target.restricted
           THEN /\ last.outcome = "invalid_argument"
                /\ mats = pre.mats
           ELSE /\ last.outcome # "invalid_argument"
                /\ OnlyChanged(Target.mat, <<Target.row, Target.col>>)
                /\ (last.op = "copy" /\ last.arg # last.slot
                      => get(last.slot) = PreElem(proxies[last.arg]))
                /\ (last.op = "copy" /\ last.arg = last.slot => mats = pre.mats)
                /\ (last.op # "copy" /\ ~(last.op \in {"div", "mod"} /\ last.arg = 0)
                      => /\ last.outcome = "ok"
                         /\ IsResult(last.op, PreElem(Target), last.arg, get(last.slot)))

\* C6 as claimed: a proxy of either kind offers each of the seven mutating
\* operations, and each follows the two-step protocol.
C6_Original ==
    /\ \A s \in Slots : (Live(s) /\ CanStep) =>
           \A op \in MutatingOperations : ENABLED OperatorCall(s, op)
    /\ FollowedProtocol

\* C6 as amended: a LowerProxy offers each of the seven mutating operations;
\* a DiagonalProxy offers assign, add-into, subtract-into, multiply-into and
\* divide-into, and neither remainder-into nor list assignment; each offered
\* operation follows the two-step protocol: std::invalid_argument and no
\* change when restricted_ is set, else the operation applied in place to the
\* element the proxy refers to.
C6_Amended ==
    /\ \A s \in Slots : (Live(s) /\ CanStep) =>
           \A op \in MutatingOperations :
               (ENABLED OperatorCall(s, op))
                  <=> (IsLowerProxy(s) \/ op \in DiagonalProxyOps)
    /\ FollowedProtocol

\* proxy /= 3 through an unrestricted DiagonalProxy has just divided the
\* element -2 of the documented matrix, leaving 0, and %= is not offered for
\* the proxy.
C6_Witness ==
    /\ last.op = "div"
    /\ last.arg = 3
    /\ last.outcome = "ok"
    /\ IsDiagonalProxy(last.slot)
    /\ ~Target.restricted
    /\ PreElem(Target) = 0 - 2
    /\ get(last.slot) = 0
    /\ CanStep
    /\ ~ ENABLED OperatorCall(last.slot, "mod")

\* C7: reset(proxy) and clear(proxy) succeed for every DiagonalProxy,
\* restricted or not; afterwards the element is default and no other element
\* has changed; called for a restricted proxy, or for any proxy whose element
\* is default already (as after a first reset or clear), they change nothing.
C7_ResetClear ==
    /\ \A s \in Slots : (IsDiagonalProxy(s) /\ CanStep) =>
           /\ ENABLED DiagonalProxy_reset(s)
           /\ ENABLED DiagonalProxy_clear(s)
    /\ (last.op \in {"reset", "clear"}) =>
           /\ last.outcome = "ok"
           /\ get(last.slot) = Default
           /\ OnlyChanged(Target.mat, <<Target.row, Target.col>>)
           /\ proxies = pre.proxies
           /\ (Target.restricted => mats = pre.mats)
           /\ (PreElem(Target) = Default => mats = pre.mats)

\* reset was called for a restricted proxy of the documented diagonal
\* matrix as the third call of the behaviour.
C7_Witness ==
    /\ last.op = "reset"
    /\ last.outcome = "ok"
    /\ IsDiagonalProxy(last.slot)
    /\ Target.restricted
    /\ Target.mat = "A"
    /\ get(last.slot) = Default
    /\ nsteps = 3

\* The shape predicate of an adaptor.
ShapeForbids(kind, row, column) ==
    IF kind = "lower" THEN row < column ELSE row # column

\* C8: isRestricted() of a proxy is the shape predicate of its matrix at the
\* (row, column) it was constructed for, whatever the matrices hold, and as
\* long as the proxy lives neither the flag nor the element it refers to
\* changes, whatever is called.
C8_RestrictedFlag ==
    /\ \A s \in Slots : Live(s) =>
           isRestricted(s) =
               ShapeForbids(kindOf[proxies[s].mat], proxies[s].row, proxies[s].col)
    /\ (last.op = "isRestricted") =>
           /\ last.outcome = "ok"
           /\ last.flag = ShapeForbids(kindOf[Target.mat], Target.row, Target.col)
    /\ \A s \in Slots :
           (Live(s) /\ pre.proxies[s].mat # "none") => proxies[s] = pre.proxies[s]

\* isRestricted() returns true for the second of two live proxies of one
\* restricted element, after three calls (two constructions and one more).
C8_Witness ==
    /\ last.op = "isRestricted"
    /\ last.flag = TRUE
    /\ last.slot = 2
    /\ Live(1)
    /\ SameCell(proxies[1], proxies[2])
    /\ nsteps = 3

\* C9: get() and the conversion operator, called through any live proxy,
\* restricted or not, return the value the element holds at that time and
\* never end in std::invalid_argument; they are possible whenever the proxy
\* lives.
C9_ReadCurrentValue ==
    /\ (last.op \in {"get", "conv"} =>
           /\ last.outcome = "ok"
           /\ last.val = Elem(Target)
           /\ last.val = PreElem(Target))
    /\ \A s \in Slots : (Live(s) /\ Running) =>
           /\ ENABLED (LowerProxy_get(s) \/ DiagonalProxy_get(s))
           /\ ENABLED (LowerProxy_conv(s) \/ DiagonalProxy_conv(s))

\* The conversion operator of the LowerProxy constructed first returns a 7
\* that the element, default at the start, was given after that proxy was
\* constructed; a second proxy of the element is alive.
C9_Witness ==
    /\ last.op = "conv"
    /\ last.slot = 1
    /\ last.val = 7
    /\ IsLowerProxy(1)
    /\ IsLowerProxy(2)
    /\ SameCell(proxies[1], proxies[2])
    /\ StartMatrix(proxies[1].mat, "lower")[<<proxies[1].row, proxies[1].col>>] = Default
    /\ nsteps = 3

\* C10: p == q of two DiagonalProxy objects is true exactly when the two
\* elements hold equal values now, whichever elements and matrices they are
\* of; p == v and v == p are true exactly when the element holds v now.
C10_EqualityByValue ==
    /\ (last.op = "eq_pp" =>
           /\ last.outcome = "ok"
           /\ last.flag = (Elem(Target) = Elem(proxies[last.arg])))
    /\ (last.op \in {"eq_pv", "eq_vp"} =>
           /\ last.outcome = "ok"
           /\ last.flag = (Elem(Target) = last.arg))

\* Two proxies of different diagonal matrices whose elements both hold 5
\* compare equal.
C10_Witness ==
    /\ last.op = "eq_pp"
    /\ last.flag = TRUE
    /\ Target.mat # proxies[last.arg].mat
    /\ get(last.slot) = 5
    /\ get(last.arg) = 5

\* C11: an assignment operator that succeeds was called through an
\* unrestricted proxy and returns that same proxy, still bound to the same
\* element; the value it leaves is computed from the value the call before
\* it left, so that operators applied one after the other (on the proxy or
\* on the returned reference) act on the one element in order: on 2, += 3
\* leaves 5, and on that 5, *= 2 leaves 10.
C11_ChainedAssignment ==
    (last.op \in AllOperators /\ last.outcome = "ok") =>
        /\ ~Target.restricted
        /\ last.ret = last.slot
        /\ proxies[last.ret] = pre.proxies[last.slot]
        /\ (last.op \in {"assign", "add", "sub", "mul"}
               => IsResult(last.op, PreElem(Target), last.arg, get(last.ret)))
        /\ (last.op \in {"div", "mod"} /\ last.arg # 0
               => IsResult(last.op, PreElem(Target), last.arg, get(last.ret)))
        /\ (last.op = "add" /\ last.arg = 3 /\ PreElem(Target) = 2
               => get(last.ret) = 5)
        /\ (last.op = "mul" /\ last.arg = 2 /\ PreElem(Target) = 5
               => get(last.ret) = 10)

\* *= 2 has just left 10 in the element B(1,1), which was initialized to 2
\* and held 5 when the call started, two calls after the proxy was
\* constructed.
C11_Witness ==
    /\ last.op = "mul"
    /\ last.arg = 2
    /\ last.outcome = "ok"
    /\ Target.mat = "B"
    /\ Target.row = 1
    /\ Target.col = 1
    /\ StartMatrix("B", kindOf["B"])[<<1, 1>>] = 2
    /\ PreElem(Target) = 5
    /\ get(last.ret) = 10
    /\ nsteps = 3

\* C12 as claimed: a call fails only if it is an assignment operator called
\* through a restricted proxy; every other call, and so every assignment
\* operator called through an unrestricted proxy whatever its operand,
\* completes without error.
C12_Original ==
    (last.op # "none") =>
        \/ last.outcome = "ok"
        \/ /\ last.outcome = "invalid_argument"
           /\ last.op \in AllOperators
           /\ Target.restricted

\* C12 as amended: std::invalid_argument is thrown by the assignment
\* operators called through a restricted proxy and by nothing else; the only
\* other way a call does not complete is the fault of /= 0 or %= 0 called
\* through an unrestricted proxy, which is undefined for the built-in element
\* type; every assignment operator called through an unrestricted proxy with
\* an operand the built-in operation is defined for succeeds, and so does
\* every construction, read, comparison, reset and clear.
C12_Amended ==
    /\ last.outcome \in {"none", "ok", "invalid_argument", "fault"}
    /\ (last.outcome = "none") = (last.op = "none")
    /\ (last.outcome = "invalid_argument")
          = (last.op \in AllOperators /\ Target.restricted)
    /\ (last.outcome = "fault") =>
          /\ last.op \in {"div", "mod"}
          /\ last.arg = 0
          /\ ~Target.restricted
          /\ NothingChanged
    /\ ( /\ last.op \in AllOperators
         /\ ~Target.restricted
         /\ ~(last.op \in {"div", "mod"} /\ last.arg = 0) )
       => last.outcome = "ok"

\* %= 0 called through an unrestricted LowerProxy has ended in a fault.
C12_Witness ==
    /\ last.op = "mod"
    /\ last.arg = 0
    /\ last.outcome = "fault"
    /\ IsLowerProxy(last.slot)
    /\ ~Target.restricted
    /\ ~Running

\* The free helpers of the element type that the claim names.
FreeHelpers == {"isDefault", "isReal", "isZero", "isOne", "reset", "clear"}

\* A call of the free helper named h for the proxy in slot s.
HelperCall(s, h) ==
    \/ h = "isDefault" /\ (LowerProxy_isDefault(s) \/ DiagonalProxy_isDefault(s))
    \/ h = "isReal" /\ LowerProxy_isReal(s)
    \/ h = "isZero" /\ LowerProxy_isZero(s)
    \/ h = "isOne" /\ LowerProxy_isOne(s)
    \/ h = "reset" /\ DiagonalProxy_reset(s)
    \/ h = "clear" /\ DiagonalProxy_clear(s)

\* The last call, a free helper, did to the element behind the proxy what
\* the helper of the element type does to a value: the four predicates
\* answer for the value the element holds and change nothing, reset and
\* clear leave the default value in that element and change no other.
HelperDelegates ==
    /\ (last.op \in LowerProxyHelpers =>
           /\ last.outcome = "ok"
           /\ NothingChanged)
    /\ (last.op = "isDefault" => last.flag = (Elem(Target) = Default))
    /\ (last.op = "isReal" => last.flag = TRUE)
    /\ (last.op = "isZero" => last.flag = (Elem(Target) = 0))
    /\ (last.op = "isOne" => last.flag = (Elem(Target) = 1))
    /\ (last.op \in {"reset", "clear"} =>
           /\ last.outcome = "ok"
           /\ Elem(Target) = Default
           /\ proxies = pre.proxies
           /\ OnlyChanged(Target.mat, <<Target.row, Target.col>>))

\* C13 as claimed: each of the six free helpers is there for a proxy of
\* either kind, restricted or not, and does what the helper of the element
\* type does with the value get() returns.
C13_Original ==
    /\ \A s \in Slots : (Live(s) /\ CanStep) =>
           \A h \in FreeHelpers : ENABLED HelperCall(s, h)
    /\ HelperDelegates

\* C13 as amended: isDefault, isReal, isZero and isOne are defined for a
\* LowerProxy, and reset, clear and isDefault for a DiagonalProxy, restricted
\* or not, and no other of the six for either; each does what the helper of
\* the element type does with the value get() returns, and the predicates
\* leave matrices and proxies unchanged.
C13_Amended ==
    /\ \A s \in Slots : (Live(s) /\ CanStep) =>
           \A h \in FreeHelpers :
               (ENABLED HelperCall(s, h))
                  <=> \/ IsLowerProxy(s) /\ h \in LowerProxyHelpers
                      \/ IsDiagonalProxy(s) /\ h \in DiagonalProxyHelpers
    /\ HelperDelegates

\* isOne is true for the LowerProxy of A(1,0), whose element held 3 and
\* holds 1 after -= 2.
C13_Witness ==
    /\ last.op = "isOne"
    /\ last.flag = TRUE
    /\ IsLowerProxy(last.slot)
    /\ Target.row = 1
    /\ Target.col = 0
    /\ DocLower[<<1, 0>>] = 3
    /\ get(last.slot) = 1
    /\ nsteps = 2

\* The stored elements of a vector, without their order.
StoredSet(v) == { v.elements[k] : k \in 1 .. Len(v.elements) }

\* The sum and the product of the values of a set of elements.
RECURSIVE SumOf(_)
SumOf(S) ==
    IF S = {} THEN 0
    ELSE LET e == CHOOSE x \in S : TRUE IN e.value + SumOf(S \ {e})

RECURSIVE ProductOf(_)
ProductOf(S) ==
    IF S = {} THEN 1
    ELSE LET e == CHOOSE x \in S : TRUE IN e.value * ProductOf(S \ {e})

\* The vector v with its stored elements in the order p.
Reordered(v, p) ==
    [v EXCEPT !.elements = [k \in 1 .. Len(v.elements) |-> v.elements[p[k]]]]

\* The sum of the elements of all positions from i on, stored or not.
RECURSIVE DenseSum(_, _)
DenseSum(v, i) ==
    IF i >= v.size THEN 0 ELSE At(v, i) + DenseSum(v, i + 1)

\* The vector { 1, 2, 3, 4 } of the documentation.
DocVector ==
    [size |-> 4,
     elements |-> <<Element(0, 1), Element(1, 2), Element(2, 3), Element(3, 4)>>]

\* C14: reduce(sv, op) with Add or Mult returns the sum or the product of
\* the values of the stored elements and of nothing else (the default value
\* if none is stored); the same vector with its elements stored in any other
\* order reduces to the same value; the vector is as it was.
C14_ReduceStoredElements ==
    (redux.op \in ReduceOps) =>
        /\ sv = redux.input
        /\ redux.value =
              IF Len(sv.elements) = 0 THEN Default
              ELSE IF redux.op = "Add" THEN SumOf(StoredSet(sv))
              ELSE ProductOf(StoredSet(sv))
        /\ \A p \in Permutations(1 .. Len(sv.elements)) :
              reduce(Reordered(sv, p), redux.op) = redux.value

\* Three elements of a vector of size 4, stored with a larger index before
\* a smaller one, were multiplied to a value that is not 0.
C14_Witness ==
    /\ redux.op = "Mult"
    /\ sv.size = 4
    /\ Len(sv.elements) = 3
    /\ sv.elements[1].index > sv.elements[2].index
    /\ redux.value = ProductOf(StoredSet(sv))
    /\ redux.value # 0

\* C15: sum(sv) is the sum of the elements of all size() positions, the
\* stored ones and the zeros that are not stored: 10 for { 1, 2, 3, 4 }, and
\* the default value 0 when nothing is stored.
C15_Sum ==
    (redux.op = "sum") =>
        /\ redux.value = DenseSum(sv, 0)
        /\ (Len(sv.elements) = 0 => redux.value = 0)
        /\ (sv = DocVector => redux.value = 10)

\* sum of { 1, 2, 3, 4 } is 10.
C15_Witness ==
    /\ redux.op = "sum"
    /\ sv = DocVector
    /\ redux.value = 10

\* C16: prod(sv) of a vector with at least one stored element is the product
\* of the values of the stored elements, 24 for { 1, 2, 3, 4 }; a position
\* that is not stored contributes no factor, so the product of a vector with
\* such positions is not 0 unless a stored value is.
C16_Prod ==
    (redux.op = "prod" /\ Len(sv.elements) >= 1) =>
        /\ redux.value = ProductOf(StoredSet(sv))
        /\ (sv = DocVector => redux.value = 24)
        /\ (redux.value = 0) = (\E e \in StoredSet(sv) : e.value = 0)

\* prod of a vector of size 4 that stores 1, 2 and 4 and has a zero that is
\* not stored at index 2 is 8.
C16_Witness ==
    /\ redux.op = "prod"
    /\ sv.size = 4
    /\ StoredSet(sv) = {Element(0, 1), Element(1, 2), Element(3, 4)}
    /\ At(sv, 2) = 0
    /\ redux.value = 8

\* The value the element behind the proxy of thread t held at the start.
StartElem(t) ==
    StartMatrix(proxies[t].mat, kindOf[proxies[t].mat])[<<proxies[t].row, proxies[t].col>>]

\* Both threads have returned from operator+= on proxies of one
\* unrestricted element.
BothAdded ==
    /\ threads[1].pc = "done"
    /\ threads[2].pc = "done"
    /\ SameCell(proxies[1], proxies[2])

\* Both threads read the element before either wrote it: each read the
\* start value (with operands that are not 0, the second of two calls made
\* one after the other reads another value).
BothReadFirst ==
    /\ threads[1].reg = StartElem(1)
    /\ threads[2].reg = StartElem(2)

BothNonZero == threads[1].value # 0 /\ threads[2].value # 0

\* C17: when two threads have each completed += k through proxies of the
\* same unrestricted element, the element holds its start value plus both
\* operands, or plus only one of them; it is the latter, an update lost and a
\* value that no sequential order of the two calls gives, whenever the
\* operands are not 0 and both threads read the element before either wrote
\* it, and the former whenever one thread read what the other had written.
C17_UnsynchronizedUpdate ==
    BothAdded =>
        /\ ~proxies[1].restricted
        /\ get(1) \in { StartElem(1) + threads[1].value + threads[2].value,
                        StartElem(1) + threads[1].value,
                        StartElem(1) + threads[2].value }
        /\ (BothNonZero /\ BothReadFirst) =>
              /\ get(1) \in { StartElem(1) + threads[1].value,
                              StartElem(1) + threads[2].value }
              /\ get(1) # StartElem(1) + threads[1].value + threads[2].value
        /\ (BothNonZero /\ ~BothReadFirst) =>
              get(1) = StartElem(1) + threads[1].value + threads[2].value

\* Thread 1 added 3 and thread 2 added 5 to the element A(0,0), which held
\* -2; it holds 1, not 6: the 5 is lost.
C17_Witness ==
    /\ BothAdded
    /\ proxies[1].row = 0
    /\ proxies[1].col = 0
    /\ StartElem(1) = 0 - 2
    /\ threads[1].value = 3
    /\ threads[2].value = 5
    /\ get(1) = 1

RawWrites == {"get_write", "conv_write"}

\* C18 as claimed: whatever is called through the public interface, writes
\* through the references that get() and the conversion return included,
\* every element at a restricted position holds the default value.
C18_Original ==
    \A m \in MatIds : \A r \in Idx, c \in Idx :
        ShapeForbids(kindOf[m], r, c) => mats[m][<<r, c>>] = Default

\* C18 as amended: no construction, assignment operator, reset, clear, read
\* or comparison gives an element at a restricted position a value that is
\* not default; a write through the reference returned by get() of either
\* class, or by the conversion of a DiagonalProxy, is not checked: it
\* succeeds for a restricted proxy too and leaves the value written in the
\* element.
C18_Amended ==
    /\ (last.op \notin RawWrites) =>
          \A m \in MatIds : \A r \in Idx, c \in Idx :
              ShapeForbids(kindOf[m], r, c) =>
                  \/ mats[m][<<r, c>>] = pre.mats[m][<<r, c>>]
                  \/ mats[m][<<r, c>>] = Default
    /\ (last.op \in RawWrites) =>
          /\ last.outcome = "ok"
          /\ get(last.slot) = last.arg
          /\ proxies = pre.proxies
          /\ OnlyChanged(Target.mat, <<Target.row, Target.col>>)
    /\ (last.op = "conv_write") => IsDiagonalProxy(last.slot)

\* proxy.get() = 7 through the LowerProxy of (0,2) has left 7 above the
\* diagonal of a lower matrix.
C18_Witness ==
    /\ last.op = "get_write"
    /\ last.arg = 7
    /\ last.outcome = "ok"
    /\ IsLowerProxy(last.slot)
    /\ Target.restricted
    /\ Target.row = 0
    /\ Target.col = 2
    /\ mats[Target.mat][<<0, 2>>] = 7

\* C19: restricted_ is tested before the operand is applied: /= and %=
\* called through a restricted proxy end in std::invalid_argument also for
\* the operand 0, never in a fault, and the element is neither divided nor
\* written; a fault comes only from an unrestricted proxy.
C19_CheckBeforeApply ==
    /\ (last.op \in {"div", "mod"} /\ Target.restricted) =>
          /\ last.outcome = "invalid_argument"
          /\ Elem(Target) = PreElem(Target)
          /\ NothingChanged
          /\ Running
    /\ (last.outcome = "fault") => ~Target.restricted

\* %= 0 called through the LowerProxy of a position above the diagonal has
\* ended in std::invalid_argument.
C19_Witness ==
    /\ last.op = "mod"
    /\ last.arg = 0
    /\ last.outcome = "invalid_argument"
    /\ IsLowerProxy(last.slot)
    /\ Target.row < Target.col
    /\ Running

\* The last call, through a restricted proxy, is a write that would have
\* left the default value in the element.
KeepsDefault ==
    \/ last.op \in {"assign", "add", "sub"} /\ last.arg = Default
    \/ last.op = "mul"
    \/ last.op = "copy" /\ PreElem(pre.proxies[last.arg]) = Default

\* C20: whether an assignment operator is rejected depends on restricted_
\* alone: called through a restricted proxy it ends in std::invalid_argument
\* also when the write would have kept the default value (= 0, += 0, -= 0,
\* *= k, copy assignment from a proxy of a default element), called through
\* an unrestricted one it never does.
C20_RejectionByPositionOnly ==
    /\ (last.op \in AllOperators /\ Target.restricted /\ KeepsDefault) =>
          /\ last.outcome = "invalid_argument"
          /\ NothingChanged
    /\ (last.op \in AllOperators) =>
          (last.outcome = "invalid_argument") = pre.proxies[last.slot].restricted

\* += 0 called through the DiagonalProxy of a position off the diagonal has
\* ended in std::invalid_argument.
C20_Witness ==
    /\ last.op = "add"
    /\ last.arg = 0
    /\ last.outcome = "invalid_argument"
    /\ IsDiagonalProxy(last.slot)
    /\ Target.row # Target.col
    /\ KeepsDefault

\* The proxy the last copy assignment copied from.
Source == proxies[last.arg]

\* C21: target = source between two proxies of one class ends in
\* std::invalid_argument exactly when the target is restricted, whatever the
\* source's flag; otherwise it leaves the value the source's element held in
\* the target's element and changes no other element.  The source's element
\* holds what it held, both proxies keep their cells and flags, and an
\* unrestricted proxy assigned to itself leaves every matrix as it was.
C21_CopyAssignment ==
    last.op = "copy" =>
        /\ last.outcome \in {"ok", "invalid_argument"}
        /\ (last.outcome = "invalid_argument") <=> pre.proxies[last.slot].restricted
        /\ last.outcome = "ok" =>
               /\ Elem(Target) = PreElem(Source)
               /\ OnlyChanged(Target.mat, <<Target.row, Target.col>>)
        /\ last.outcome = "invalid_argument" => mats = pre.mats
        /\ Elem(Source) = PreElem(Source)
        /\ proxies = pre.proxies
        /\ (last.arg = last.slot /\ last.outcome = "ok") => mats = pre.mats

\* The diagonal element (1,1) of B, initialized to 2, was assigned from the
\* proxy of the restricted position (0,1): the assignment succeeded and the
\* element now holds the default value of the source.
C21_Witness ==
    /\ last.op = "copy"
    /\ last.outcome = "ok"
    /\ Source.restricted
    /\ ~Target.restricted
    /\ Target.mat = "B"
    /\ PreElem(Target) = 2
    /\ Elem(Target) = Default
    /\ ~SameCell(Source, Target)

\* The calls that write the element when they succeed.
Writes == AllOperators \cup {"reset", "clear"}

\* The step is a get() through a proxy in another slot than the one the
\* last call, a successful write, was made through, bound to the same element.
GetThroughOther ==
    /\ last.op \in Writes
    /\ last.outcome = "ok"
    /\ last'.op = "get"
    /\ last'.slot # last.slot
    /\ SameCell(proxies[last'.slot], Target)

\* C22: two live proxies bound to the same element of the same matrix,
\* whether constructed one by one for the position or one copied from the
\* other, have equal restricted flags; and the get() that follows a
\* successful write, made through the other proxy of the element, returns
\* what the write left: the operand of proxy = v, the result of the built-in
\* operation of a compound assignment, the source's value of a copy
\* assignment.
C22_ProxiesAreViews ==
    /\ [](\A s \in Slots : \A t \in Slots :
              (Live(s) /\ Live(t) /\ SameCell(proxies[s], proxies[t]))
                  => proxies[s].restricted = proxies[t].restricted)
    /\ [][ GetThroughOther =>
             /\ last'.outcome = "ok"
             /\ last'.val = Elem(Target)
             /\ (last.op = "copy" => last'.val = PreElem(Source))
             /\ (last.op \in MutatingOperations
                    /\ ~(last.op \in {"div", "mod"} /\ last.arg = 0))
                  => IsResult(last.op, PreElem(Target), last.arg, last'.val) ]_vars

\* get() through the second of two proxies of the diagonal element (1,1) of
\* B returns 6: the element was initialized to 2 and one compound assignment
\* was made after both proxies were constructed.
C22_Witness ==
    /\ last.op = "get"
    /\ last.slot = 2
    /\ last.val = 6
    /\ pre.proxies[1] = pre.proxies[2]
    /\ IsDiagonalProxy(1)
    /\ Target.mat = "B"
    /\ Target.row = 1
    /\ Target.col = 1
    /\ StartMatrix("B", "diagonal")[<<1, 1>>] = 2
    /\ nsteps = 3

\* C23: a call of an assignment operator, reset or clear through a proxy
\* bound to (r, c) that succeeds changes no element but the one at (r, c) of
\* the proxy's matrix; one that fails changes no element at all; and either
\* way every proxy keeps its element and its restricted flag.
C23_Frame ==
    last.op \in Writes =>
        /\ proxies = pre.proxies
        /\ last.outcome = "ok" =>
               \A m \in MatIds : \A pos \in Pos :
                   mats[m][pos] # pre.mats[m][pos] =>
                       /\ m = Target.mat
                       /\ pos = <<Target.row, Target.col>>
        /\ last.outcome # "ok" => mats = pre.mats

\* proxy -= 2 through the proxy of (1,0) of the documented lower matrix left
\* 1 where 3 was, with a second proxy alive that is bound to (2,1).
C23_Witness ==
    /\ last.op = "sub"
    /\ last.arg = 2
    /\ last.outcome = "ok"
    /\ IsLowerProxy(last.slot)
    /\ Target.row = 1
    /\ Target.col = 0
    /\ PreElem(Target) = 3
    /\ Elem(Target) = 1
    /\ \E t \in Slots : Live(t) /\ proxies[t].row = 2 /\ proxies[t].col = 1
                                /\ proxies[t].mat = Target.mat /\ Elem(proxies[t]) = 5

\* How a call can end.
Outcomes == {"ok", "invalid_argument", "fault"}

\* The operator op, called with v through the proxy in slot s, can end in
\* outcome o.
CanEndIn(s, op, v, o) ==
    ENABLED ( /\ OperatorCall(s, op)
              /\ last'.arg = v
              /\ last'.outcome = o )

\* The operator op, called with v through the proxy in slot s, can end in
\* outcome o with w in the proxy's element.
CanEnd(s, op, v, o, w) ==
    ENABLED ( /\ OperatorCall(s, op)
              /\ last'.arg = v
              /\ last'.outcome = o
              /\ mats'[proxies[s].mat][<<proxies[s].row, proxies[s].col>>] = w )

\* Two proxies of one class whose elements hold the same value and whose
\* flags are equal.
Alike(s, t) ==
    /\ Live(s)
    /\ Live(t)
    /\ kindOf[proxies[s].mat] = kindOf[proxies[t].mat]
    /\ get(s) = get(t)
    /\ isRestricted(s) = isRestricted(t)

\* C24: a proxy can be constructed for every position (row, column) of a
\* matrix, restricted or not; the construction binds the proxy to the element
\* at that position, computes the flag from the position and changes no
\* element and no other proxy.  From then on what a call through the proxy
\* does depends on the value of the bound element and on the flag only:
\* every operator call follows the protocol of check and built-in operation
\* on the element, and a proxy just constructed ends every operator call
\* with every operand in the same ways as any live proxy of its class that
\* agrees with it in value and flag, whatever matrix and position that one
\* is bound to.
C24_Construction ==
    /\ (last.op = "construct" =>
           /\ last.outcome = "ok"
           /\ mats = pre.mats
           /\ ~(pre.proxies[last.slot].mat # "none")
           /\ Live(last.slot)
           /\ Target.restricted =
                  ShapeForbids(kindOf[Target.mat], Target.row, Target.col)
           /\ \A t \in Slots : t # last.slot => proxies[t] = pre.proxies[t])
    /\ (CanStep /\ FreeSlot # 0) =>
           \A m \in MatIds : \A r \in Idx : \A c \in Idx :
               ENABLED ( /\ Construct(FreeSlot, m, r, c)
                         /\ proxies'[FreeSlot].mat = m
                         /\ proxies'[FreeSlot].row = r
                         /\ proxies'[FreeSlot].col = c )
    /\ FollowedProtocol
    /\ \A t \in Slots :
           ( /\ last.op \in {"construct", "copy_construct"}
             /\ CanStep
             /\ t # last.slot
             /\ Alike(last.slot, t) ) =>
               \A op \in MutatingOperations : \A v \in Operands :
                   /\ \A o \in Outcomes :
                          CanEndIn(last.slot, op, v, o) <=> CanEndIn(t, op, v, o)
                   /\ \A w \in Val :
                          CanEnd(last.slot, op, v, "ok", w) <=> CanEnd(t, op, v, "ok", w)

\* The proxy of (2,2) of B was just constructed, the proxy of (0,0) of B is
\* alive, no element changed and both elements hold the default value:
\* += 7 through either proxy can end with 7 in its element and in no other
\* way.
C24_Witness ==
    /\ last.op = "construct"
    /\ last.slot = 2
    /\ proxies[1].mat = "B" /\ proxies[1].row = 0 /\ proxies[1].col = 0
    /\ proxies[2].mat = "B" /\ proxies[2].row = 2 /\ proxies[2].col = 2
    /\ mats = pre.mats
    /\ Alike(1, 2)
    /\ CanEnd(1, "add", 7, "ok", 7)
    /\ CanEnd(2, "add", 7, "ok", 7)
    /\ ~CanEnd(2, "add", 7, "ok", 0)
    /\ ~CanEnd(2, "add", 7, "invalid_argument", 0)

\* The relational operators in their three forms: between two proxies (pp),
\* between a proxy and a value (pv), between a value and a proxy (vp).
RelationalCalls ==
    { [op |-> "eq_pp", rel |-> "eq", form |-> "pp"],
      [op |-> "eq_pv", rel |-> "eq", form |-> "pv"],
      [op |-> "eq_vp", rel |-> "eq", form |-> "vp"],
      [op |-> "ne_pp", rel |-> "ne", form |-> "pp"],
      [op |-> "ne_pv", rel |-> "ne", form |-> "pv"],
      [op |-> "ne_vp", rel |-> "ne", form |-> "vp"],
      [op |-> "lt_pp", rel |-> "lt", form |-> "pp"],
      [op |-> "lt_pv", rel |-> "lt", form |-> "pv"],
      [op |-> "lt_vp", rel |-> "lt", form |-> "vp"],
      [op |-> "gt_pp", rel |-> "gt", form |-> "pp"],
      [op |-> "gt_pv", rel |-> "gt", form |-> "pv"],
      [op |-> "gt_vp", rel |-> "gt", form |-> "vp"],
      [op |-> "le_pp", rel |-> "le", form |-> "pp"],
      [op |-> "le_pv", rel |-> "le", form |-> "pv"],
      [op |-> "le_vp", rel |-> "le", form |-> "vp"],
      [op |-> "ge_pp", rel |-> "ge", form |-> "pp"],
      [op |-> "ge_pv", rel |-> "ge", form |-> "pv"],
      [op |-> "ge_vp", rel |-> "ge", form |-> "vp"] }

\* A call of the relational operator named op with the proxy in slot s.
RelationalCall(s, op) ==
    \/ op = "eq_pp" /\ \E t \in Slots : DiagonalProxy_eq_pp(s, t)
    \/ op = "eq_pv" /\ \E v \in CompareValues : DiagonalProxy_eq_pv(s, v)
    \/ op = "eq_vp" /\ \E v \in CompareValues : DiagonalProxy_eq_vp(v, s)
    \/ op = "ne_pp" /\ \E t \in Slots : DiagonalProxy_ne_pp(s, t)
    \/ op = "ne_pv" /\ \E v \in CompareValues : DiagonalProxy_ne_pv(s, v)
    \/ op = "ne_vp" /\ \E v \in CompareValues : DiagonalProxy_ne_vp(v, s)
    \/ op = "lt_pp" /\ \E t \in Slots : DiagonalProxy_lt_pp(s, t)
    \/ op = "lt_pv" /\ \E v \in CompareValues : DiagonalProxy_lt_pv(s, v)
    \/ op = "lt_vp" /\ \E v \in CompareValues : DiagonalProxy_lt_vp(v, s)
    \/ op = "gt_pp" /\ \E t \in Slots : DiagonalProxy_gt_pp(s, t)
    \/ op = "gt_pv" /\ \E v \in CompareValues : DiagonalProxy_gt_pv(s, v)
    \/ op = "gt_vp" /\ \E v \in CompareValues : DiagonalProxy_gt_vp(v, s)
    \/ op = "le_pp" /\ \E t \in Slots : DiagonalProxy_le_pp(s, t)
    \/ op = "le_pv" /\ \E v \in CompareValues : DiagonalProxy_le_pv(s, v)
    \/ op = "le_vp" /\ \E v \in CompareValues : DiagonalProxy_le_vp(v, s)
    \/ op = "ge_pp" /\ \E t \in Slots : DiagonalProxy_ge_pp(s, t)
    \/ op = "ge_pv" /\ \E v \in CompareValues : DiagonalProxy_ge_pv(s, v)
    \/ op = "ge_vp" /\ \E v \in CompareValues : DiagonalProxy_ge_vp(v, s)

\* The relation rel between the values a and b, said with < alone.
Holds(rel, a, b) ==
    CASE rel = "eq" -> ~(a < b) /\ ~(b < a)
      [] rel = "ne" -> (a < b) \/ (b < a)
      [] rel = "lt" -> a < b
      [] rel = "gt" -> b < a
      [] rel = "le" -> ~(b < a)
      [] rel = "ge" -> ~(a < b)

\* The left and the right operand of the last call, a relational operator
\* of form f, as values.
LeftValue(f) == IF f = "vp" THEN last.arg ELSE Elem(Target)
RightValue(f) ==
    CASE f = "pp" -> Elem(proxies[last.arg])
      [] f = "pv" -> last.arg
      [] f = "vp" -> Elem(Target)

\* C25: every relational operator of DiagonalProxy, in each of its three
\* forms, can be called with any live proxy, restricted or not, returns the
\* relation between the values of the referenced elements (or the value
\* given) and changes no element and no proxy.  The operators agree with
\* one another: a != b is the negation of a == b, a > b is b < a, a <= b is
\* a < b or a == b, and a >= b is a > b or a == b.
C25_RelationalOperators ==
    /\ \A c \in RelationalCalls :
           last.op = c.op =>
               /\ last.outcome = "ok"
               /\ NothingChanged
               /\ last.flag = Holds(c.rel, LeftValue(c.form), RightValue(c.form))
    /\ \A s \in Slots : IsDiagonalProxy(s) =>
           \A c \in RelationalCalls : ENABLED RelationalCall(s, c.op)
    /\ \A s \in Slots : \A t \in Slots :
           (IsDiagonalProxy(s) /\ IsDiagonalProxy(t)) =>
               /\ NotEqualProxyProxy(s, t) = ~EqualProxyProxy(s, t)
               /\ GreaterProxyProxy(s, t) = LessProxyProxy(t, s)
               /\ LessEqualProxyProxy(s, t) =
                      (LessProxyProxy(s, t) \/ EqualProxyProxy(s, t))
               /\ GreaterEqualProxyProxy(s, t) =
                      (GreaterProxyProxy(s, t) \/ EqualProxyProxy(s, t))
    /\ \A s \in Slots : \A v \in Val :
           IsDiagonalProxy(s) =>
               /\ NotEqualProxyValue(s, v) = ~EqualProxyValue(s, v)
               /\ NotEqualValueProxy(v, s) = ~EqualValueProxy(v, s)
               /\ GreaterProxyValue(s, v) = LessValueProxy(v, s)
               /\ GreaterValueProxy(v, s) = LessProxyValue(s, v)
               /\ LessEqualProxyValue(s, v) =
                      (LessProxyValue(s, v) \/ EqualProxyValue(s, v))
               /\ LessEqualValueProxy(v, s) =
                      (LessValueProxy(v, s) \/ EqualValueProxy(v, s))
               /\ GreaterEqualProxyValue(s, v) =
                      (GreaterProxyValue(s, v) \/ EqualProxyValue(s, v))
               /\ GreaterEqualValueProxy(v, s) =
                      (GreaterValueProxy(v, s) \/ EqualValueProxy(v, s))

\* p >= q was called with the proxy p of the restricted position (0,1) of A,
\* whose element is default, and the proxy q of the diagonal element (0,0),
\* which holds -2: it returned true and nothing changed.
C25_Witness ==
    /\ last.op = "ge_pp"
    /\ last.outcome = "ok"
    /\ last.flag = TRUE
    /\ Target.restricted
    /\ Target.mat = "A" /\ Target.row = 0 /\ Target.col = 1
    /\ proxies[last.arg].mat = "A"
    /\ proxies[last.arg].row = 0 /\ proxies[last.arg].col = 0
    /\ Elem(proxies[last.arg]) = 0 - 2
    /\ mats = pre.mats

\* The runs 1 .. k, in this order.
InOrder(k) == [i \in 1 .. k |-> i]

\* C26: main starts its operation tests in the order they are listed.  It
\* returns EXIT_SUCCESS exactly when every one of them has run and none
\* threw.  When one throws an exception derived from std::exception, the
\* handler of main catches it: no operation test after that one is started,
\* main returns EXIT_FAILURE and the exception does not leave main.
C26_DriverMain ==
    driver.pc # "none" =>
        /\ driver.order = InOrder(Len(driver.order))
        /\ (driver.status = "EXIT_SUCCESS") <=>
               ( /\ driver.pc = "returned"
                 /\ driver.thrownBy = 0
                 /\ driver.order = InOrder(driver.runs) )
        /\ (driver.status = "EXIT_FAILURE") <=>
               ( /\ driver.pc = "returned"
                 /\ driver.thrownBy # 0
                 /\ IsStdException(driver.pending) )
        /\ driver.thrownBy # 0 => driver.order = InOrder(driver.thrownBy)
        /\ driver.pc = "terminated" => ~IsStdException(driver.pending)
        /\ (driver.pc = "thrown" /\ IsStdException(driver.pending)) =>
               /\ ENABLED Catch
               /\ ~ENABLED (RunCompletes \/ Escape \/ ReturnSuccess
                              \/ \E e \in Exceptions : RunThrows(e))
        /\ (driver.pc = "try" /\ driver.order = InOrder(driver.runs)) =>
               /\ ENABLED ReturnSuccess
               /\ ~ENABLED (RunCompletes \/ \E e \in Exceptions : RunThrows(e))
        /\ (driver.pc = "try" /\ driver.order # InOrder(driver.runs)) =>
               ~ENABLED ReturnSuccess

\* The driver with thirteen operation tests (MIbMIb) returned EXIT_FAILURE:
\* the eighth, the first with a large matrix, threw std::runtime_error after
\* the seven of the loop had completed, and none of the last five was run.
C26_Witness ==
    /\ driver.runs = 13
    /\ driver.pc = "returned"
    /\ driver.status = "EXIT_FAILURE"
    /\ driver.pending = "std::runtime_error"
    /\ driver.thrownBy = 8
    /\ driver.order = <<1, 2, 3, 4, 5, 6, 7, 8>>
====
